---- MODULE Spec2Model ----
(***************************************************************************)
(* A model of the retro-aim-server protocol runtime: the auth service      *)
(* (foodgroup/auth.go), the session manager (oscar/session.go), the        *)
(* feedbag store queries and the presence fan-out (oscar/buddy.go).        *)
(***************************************************************************)
EXTENDS Integers, Sequences, FiniteSets, TLC

VARIABLES
    DisableAuth,  \* config.Config.DisableAuth of the running server
    users,        \* UserManager + AccountManager rows: ident -> user record
    store,        \* SessionManager.store: session ID -> session
    nextID,       \* number of session IDs handed out so far (uuid.NewUUID)
    chat,         \* ChatSessionRegistry: session ID -> chat room cookie, screen name
    feedbag,      \* feedbag table: the set of its rows
    last,         \* the last operation: its inputs, its result, the calls it made
    goroutines,   \* goroutine -> the Session method it runs, its position, its locals
    chatRegistry, \* toc.ChatRegistry of one TOC connection: lookup, sessions, nextID
    broadcast,    \* the Notify* call in progress: its position and the sessions left
    receivers,    \* session IDs whose connection is receiving from MsgChan right now
    pumps,        \* the doAsync tasks of one TOC connection: the RecvChat pumps
    closed,       \* chat session IDs whose Close was called
    server,       \* AuthServer.Start: the root context, the listener, its position
    conns,        \* the accepted auth connections: handler position, frames so far
    tables        \* the user and profile tables of the FeedbagStore: their rows

vars == <<DisableAuth, users, store, nextID, chat, feedbag, last, goroutines,
          chatRegistry, broadcast, receivers, pumps, closed, server, conns, tables>>

----------------------------------------------------------------------------
(* Bounds *)

\* session objects created in one behaviour (IDs 1..MaxSessions)
MaxSessions == 2

\* goroutines that call the methods of one Session concurrently
MaxGoroutines == 3

----------------------------------------------------------------------------
(* Screen names.  IdentScreenName is the canonical form of a display name *)
(* (lower case, spaces removed); the state package is not part of src/.   *)

DisplayNames == {"Alice", "ALICE", "Bob", "10001", "10002", "7", "x!"}

IdentScreenName(display) ==
    CASE display = "Alice" -> "alice"
      [] display = "ALICE" -> "alice"
      [] display = "Bob"   -> "bob"
      [] OTHER             -> display

\* DisplayScreenName.IsUIN: the name is a number
IsUIN(display) == display \in {"10001", "10002", "7"}

\* DisplayScreenName.ValidateUIN: "" or ErrICQUINInvalidFormat (out of range)
ValidateUIN(display) ==
    IF display \in {"10001", "10002"} THEN "" ELSE "ErrICQUINInvalidFormat"

\* DisplayScreenName.ValidateAIMHandle: "", ErrAIMHandleLength or
\* ErrAIMHandleInvalidFormat
ValidateAIMHandle(display) ==
    IF display \in {"Alice", "ALICE", "Bob"} THEN "" ELSE "ErrAIMHandleInvalidFormat"

\* strconv.Atoi on the decimal strings of the model
Atoi(ident) ==
    CASE ident = "0"     -> [ok |-> TRUE, n |-> 0]
      [] ident = "1"     -> [ok |-> TRUE, n |-> 1]
      [] ident = "2"     -> [ok |-> TRUE, n |-> 2]
      [] ident = "4"     -> [ok |-> TRUE, n |-> 4]
      [] ident = "10001" -> [ok |-> TRUE, n |-> 10001]
      [] ident = "10002" -> [ok |-> TRUE, n |-> 10002]
      [] ident = "7"     -> [ok |-> TRUE, n |-> 7]
      [] OTHER           -> [ok |-> FALSE, n |-> 0]

----------------------------------------------------------------------------
(* Credentials.  A password is obfuscated three ways on the wire; each     *)
(* validator of state.User accepts exactly the encoding of the stored      *)
(* password made for its flow.                                             *)

Absent == <<>>

StrongMD5(authKey, pw) == <<"md5", authKey, pw>>
Roast(pw)              == <<"roast", pw>>
RoastTOC(pw)           == <<"tictoc", pw>>

ValidateHash(u, passwordHash)         == passwordHash = StrongMD5(u.AuthKey, u.Password)
ValidateRoastedPass(u, roasted)       == roasted = Roast(u.Password)
ValidateRoastedTOCPass(u, roasted)    == roasted = RoastTOC(u.Password)

\* state.NewStubUser: the user factory handed to login
NewStubUser(display) ==
    [DisplayScreenName |-> display, AuthKey |-> "stub-key",
     Password |-> "welcome1", Confirmed |-> FALSE]

\* the users registered before the server starts
InitialUsers ==
    [ident \in {"alice", "10001"} |->
        IF ident = "alice"
        THEN [DisplayScreenName |-> "Alice", AuthKey |-> "k1",
              Password |-> "pw1", Confirmed |-> TRUE]
        ELSE [DisplayScreenName |-> "10001", AuthKey |-> "k2",
              Password |-> "pw2", Confirmed |-> FALSE]]

\* UserManager.InsertUser
InsertUser(us, u) ==
    LET ident == IdentScreenName(u.DisplayScreenName)
    IN  [i \in DOMAIN us \cup {ident} |-> IF i = ident THEN u ELSE us[i]]

----------------------------------------------------------------------------
(* Cookie baker: Issue signs a payload, Crack returns the payload of a     *)
(* token whose signature verifies.                                         *)

Issue(payload) == [mac |-> "valid", payload |-> payload]
CrackOK(cookie) == cookie.mac = "valid"
Crack(cookie)   == cookie.payload

\* wire.MarshalBE / wire.UnmarshalBE of bosCookie
MarshalBOSCookie(screenName, clientID) ==
    [kind |-> "bos", ScreenName |-> screenName, ClientID |-> clientID]
UnmarshalBOSCookieOK(buf) == buf.kind = "bos"

\* config.Config
OSCARHost == "aim.example.com"
BOSPort   == "5191"
AuthPort  == "5190"

\* net.JoinHostPort
JoinHostPort(host, port) == <<host, port>>

----------------------------------------------------------------------------
(* The record of the last operation.  Every action overwrites it.          *)

NoBlock == <<>>

HasTag(block, tag) == tag \in DOMAIN block

NoOp ==
    [op |-> "none", in |-> <<>>, fault |-> "none", err |-> FALSE,
     sub |-> "", block |-> NoBlock, authKey |-> "", calls |-> <<>>,
     known |-> FALSE, sess |-> 0, sent |-> <<>>,
     panic |-> FALSE, reply |-> <<>>, ok |-> TRUE,
     request |-> <<>>, reflection |-> <<>>]

\* the user and profile tables feedbagDDL creates
NoRows == [user |-> {}, profile |-> {}]

\* an AuthServer that was not started
NotStarted == [ctx |-> "live", listener |-> "none", pc |-> "none", clean |-> FALSE]

----------------------------------------------------------------------------
(* AuthService: login *)

\* the screen names presented at login
LoginNames == {"Alice", "Bob", "10001", "10002", "7", "x!"}

\* the TLV lists a client can present at login; a tag maps to Absent or to
\* its value.  The credentials are those of a client that knows the
\* password pw1 and the auth key k1, or sends a wrong hash.
LoginTLVs ==
    { tlv \in
        [ScreenName         : {Absent} \cup {<<n>> : n \in LoginNames},
         ClientIdentity     : {Absent, <<"AIM/5.9">>},
         PasswordHash       : {Absent, StrongMD5("k1", "pw1"), StrongMD5("k1", "pw2")},
         RoastedPassword    : {Absent, Roast("pw1")},
         RoastedTOCPassword : {Absent, RoastTOC("pw1")}] :
        tlv.ScreenName = Absent =>
            /\ tlv.ClientIdentity = Absent /\ tlv.PasswordHash = Absent
            /\ tlv.RoastedPassword = Absent /\ tlv.RoastedTOCPassword = Absent }

\* the collaborator call that fails during one operation, if any
LoginFaults == {"none", "User", "newUserFn", "InsertUser", "Issue"}

\* a fault counts only in an operation that makes the failing call
Reached(fault, calls) ==
    fault = "none" \/ \E i \in DOMAIN calls : calls[i] = fault

\* the outcome of one call: an error or a TLV block, the user store it
\* leaves, the collaborator calls made
Outcome(err, block, us, calls) ==
    [err |-> err, block |-> block, users |-> us, calls |-> calls]

\* a fromTLV for which the TOC password TLV outranks the password hash
fromTLV_TOCOverHash(list) ==
    [err          |-> list.ScreenName = Absent,
     screenName   |-> IF list.ScreenName = Absent THEN "" ELSE list.ScreenName[1],
     clientID     |-> IF list.ClientIdentity = Absent THEN "" ELSE list.ClientIdentity[1],
     isBUCPAuth   |-> list.PasswordHash # Absent /\ list.RoastedTOCPassword = Absent,
     isTOCAuth    |-> list.RoastedTOCPassword # Absent,
     passwordHash |-> list.PasswordHash,
     roastedPass  |-> IF list.RoastedTOCPassword # Absent
                      THEN list.RoastedTOCPassword
                      ELSE list.RoastedPassword]

\* loginProperties.fromTLV: the screen name is required; the hash selects
\* BUCP, the TOC password selects TOC and replaces the roasted password
fromTLV(list) ==
    [err          |-> list.ScreenName = Absent,
     screenName   |-> IF list.ScreenName = Absent THEN "" ELSE list.ScreenName[1],
     clientID     |-> IF list.ClientIdentity = Absent THEN "" ELSE list.ClientIdentity[1],
     isBUCPAuth   |-> list.PasswordHash # Absent,
     isTOCAuth    |-> list.RoastedTOCPassword # Absent,
     passwordHash |-> list.PasswordHash,
     roastedPass  |-> IF list.RoastedTOCPassword # Absent
                      THEN list.RoastedTOCPassword
                      ELSE list.RoastedPassword]

loginFailureResponse(props, errCode) ==
    [ScreenName |-> props.screenName, ErrorSubcode |-> errCode]

\* a success response that sends the client back to the auth port
loginSuccessResponse_AuthPort(props, us, calls, fault) ==
    IF fault = "Issue"
    THEN Outcome(TRUE, NoBlock, us, Append(calls, "Issue"))
    ELSE Outcome(FALSE,
                 [ScreenName          |-> props.screenName,
                  ReconnectHere       |-> JoinHostPort(OSCARHost, AuthPort),
                  AuthorizationCookie |->
                      Issue(MarshalBOSCookie(props.screenName, props.clientID))],
                 us, Append(calls, "Issue"))

loginSuccessResponse(props, us, calls, fault) ==
    IF fault = "Issue"
    THEN Outcome(TRUE, NoBlock, us, Append(calls, "Issue"))
    ELSE Outcome(FALSE,
                 [ScreenName          |-> props.screenName,
                  ReconnectHere       |-> JoinHostPort(OSCARHost, BOSPort),
                  AuthorizationCookie |->
                      Issue(MarshalBOSCookie(props.screenName, props.clientID))],
                 us, Append(calls, "Issue"))

\* a createUser that checks every name as an AIM handle
validateScreenName_AIMOnly(screenName) == ValidateAIMHandle(screenName)

\* createUser: the format check of the screen name to register
validateScreenName(screenName) ==
    IF IsUIN(screenName) THEN ValidateUIN(screenName) ELSE ValidateAIMHandle(screenName)

createUser(props, calls, fault) ==
    LET verr == validateScreenName(props.screenName)
    IN  IF verr \in {"ErrAIMHandleInvalidFormat", "ErrAIMHandleLength"}
        THEN Outcome(FALSE,
                     loginFailureResponse(props, "LoginErrInvalidUsernameOrPassword"),
                     users, calls)
        ELSE IF verr = "ErrICQUINInvalidFormat"
        THEN Outcome(FALSE, loginFailureResponse(props, "LoginErrICQUserErr"),
                     users, calls)
        ELSE IF verr # ""
        THEN Outcome(TRUE, NoBlock, users, calls)
        ELSE IF fault = "newUserFn"
        THEN Outcome(TRUE, NoBlock, users, Append(calls, "newUserFn"))
        ELSE IF fault = "InsertUser"
        THEN Outcome(TRUE, NoBlock, users, calls \o <<"newUserFn", "InsertUser">>)
        ELSE loginSuccessResponse(props,
                 InsertUser(users, NewStubUser(props.screenName)),
                 calls \o <<"newUserFn", "InsertUser">>, fault)

\* a login that accepts a credential in any of the TLVs presented
loginOK_AnyCredential(props, user) ==
    \/ ValidateHash(user, props.passwordHash)
    \/ ValidateRoastedTOCPass(user, props.roastedPass)
    \/ ValidateRoastedPass(user, props.roastedPass)

\* login: the validator of the credential flow the client selected
loginOK(props, user) ==
    IF props.isBUCPAuth
    THEN ValidateHash(user, props.passwordHash)
    ELSE IF props.isTOCAuth
    THEN ValidateRoastedTOCPass(user, props.roastedPass)
    ELSE ValidateRoastedPass(user, props.roastedPass)

login(tlv, fault) ==
    LET props == fromTLV(tlv)
        ident == IdentScreenName(props.screenName)
    IN  IF props.err
        THEN Outcome(TRUE, NoBlock, users, <<>>)
        ELSE IF fault = "User"
        THEN Outcome(TRUE, NoBlock, users, <<"User">>)
        ELSE IF ident \notin DOMAIN users
        THEN IF DisableAuth
             THEN createUser(props, <<"User">>, fault)
             ELSE Outcome(FALSE,
                          loginFailureResponse(props,
                              IF IsUIN(props.screenName)
                              THEN "LoginErrICQUserErr"
                              ELSE "LoginErrInvalidUsernameOrPassword"),
                          users, <<"User">>)
        ELSE IF DisableAuth
        THEN loginSuccessResponse(props, users, <<"User">>, fault)
        ELSE IF ~loginOK(props, users[ident])
        THEN Outcome(FALSE, loginFailureResponse(props, "LoginErrInvalidPassword"),
                     users, <<"User">>)
        ELSE loginSuccessResponse(props, users, <<"User">>, fault)

\* what both login entry points record
LoginRecord(op, tlv, fault, r) ==
    [NoOp EXCEPT !.op = op, !.in = tlv, !.fault = fault, !.err = r.err,
                 !.sub = IF op = "BUCPLogin" /\ ~r.err THEN "BUCPLoginResponse" ELSE "",
                 !.block = r.block, !.calls = r.calls,
                 !.known = (tlv.ScreenName # Absent
                            /\ IdentScreenName(tlv.ScreenName[1]) \in DOMAIN users)]

BUCPLogin(TLVs) ==
    \E tlv \in TLVs, fault \in LoginFaults :
        LET r == login(tlv, fault)
        IN  /\ Reached(fault, r.calls)
            /\ users' = r.users
            /\ last' = LoginRecord("BUCPLogin", tlv, fault, r)
            /\ UNCHANGED <<DisableAuth, store, nextID, chat, feedbag, goroutines, chatRegistry,
                       broadcast, receivers, pumps, closed, server, conns,
                       tables>>

FLAPLogin(TLVs) ==
    \E tlv \in TLVs, fault \in LoginFaults :
        LET r == login(tlv, fault)
        IN  /\ Reached(fault, r.calls)
            /\ users' = r.users
            /\ last' = LoginRecord("FLAPLogin", tlv, fault, r)
            /\ UNCHANGED <<DisableAuth, store, nextID, chat, feedbag, goroutines, chatRegistry,
                       broadcast, receivers, pumps, closed, server, conns,
                       tables>>

----------------------------------------------------------------------------
(* AuthService: BUCP challenge *)

ChallengeRequests == [ScreenName : {Absent} \cup {<<n>> : n \in DisplayNames}]

\* newUUIDFn().String()
StubAuthKey == "uuid"

\* a switch that sends a generated key for a stored user too
challengeAuthKey_AlwaysStub(ident) ==
    IF ident \in DOMAIN users \/ DisableAuth THEN StubAuthKey ELSE ""

\* BUCPChallenge: the switch on the looked-up user; the auth key to send,
\* or "" when the login error is sent instead
challengeAuthKey(ident) ==
    IF ident \in DOMAIN users
    THEN users[ident].AuthKey
    ELSE IF DisableAuth
    THEN StubAuthKey
    ELSE ""

BUCPChallengeResult(bodyIn, fault) ==
    LET none == [err |-> TRUE, sub |-> "", authKey |-> "", block |-> NoBlock,
                 calls |-> <<>>]
    IN  IF bodyIn.ScreenName = Absent
        THEN none
        ELSE LET ident == IdentScreenName(bodyIn.ScreenName[1])
                 challenge(key) ==
                     [none EXCEPT !.err = FALSE, !.sub = "BUCPChallengeResponse",
                                  !.authKey = key, !.calls = <<"User">>]
             IN  IF fault = "User"
                 THEN [none EXCEPT !.calls = <<"User">>]
                 ELSE IF challengeAuthKey(ident) # ""
                 THEN challenge(challengeAuthKey(ident))
                 ELSE [none EXCEPT !.err = FALSE, !.sub = "BUCPLoginResponse",
                                   !.block = [ErrorSubcode |->
                                       "LoginErrInvalidUsernameOrPassword"],
                                   !.calls = <<"User">>]

BUCPChallenge ==
    \E bodyIn \in ChallengeRequests, fault \in {"none", "User"} :
        LET r == BUCPChallengeResult(bodyIn, fault)
        IN  /\ Reached(fault, r.calls)
            /\ last' = [NoOp EXCEPT !.op = "BUCPChallenge", !.in = bodyIn,
                            !.fault = fault, !.err = r.err, !.sub = r.sub,
                            !.authKey = r.authKey, !.block = r.block,
                            !.calls = r.calls,
                            !.known = (bodyIn.ScreenName # Absent
                                       /\ IdentScreenName(bodyIn.ScreenName[1])
                                              \in DOMAIN users)]
            /\ UNCHANGED <<DisableAuth, users, store, nextID, chat, feedbag, goroutines, chatRegistry,
                       broadcast, receivers, pumps, closed, server, conns,
                       tables>>

----------------------------------------------------------------------------
(* SessionManager (oscar/session.go).  The store maps a session ID to the  *)
(* session; session IDs are 1..nextID in the order they were handed out.   *)

\* the zero value of a Go string: no data, length 0
NoAwayMessage == [data |-> "", len |-> 0]

\* the session NewSession stores: every field but the ID is the zero value
NewSession(st, id) ==
    [i \in DOMAIN st \cup {id} |->
        IF i = id
        THEN [ScreenName |-> "", Warning |-> 0, AwayMessage |-> NoAwayMessage,
              flags |-> {}, ClientID |-> "", UIN |-> 0, caps |-> {}]
        ELSE st[i]]

\* a Remove that deletes every session of the same screen name
Remove_ByScreenName(st, id) ==
    IF id \in DOMAIN st
    THEN [i \in {k \in DOMAIN st : st[k].ScreenName # st[id].ScreenName} |-> st[i]]
    ELSE st

\* a Remove that falls back to the latest session when the ID is not stored
Remove_OrLatest(st, id) ==
    LET victim == IF id \in DOMAIN st \/ DOMAIN st = {}
                  THEN id
                  ELSE CHOOSE k \in DOMAIN st : \A m \in DOMAIN st : m <= k
    IN  [i \in DOMAIN st \ {victim} |-> st[i]]

Remove(st, id) == [i \in DOMAIN st \ {id} |-> st[i]]

\* the sessions RetrieveByScreenName can return: the first match of a map
\* iteration, in whatever order the map iterates
RetrieveByScreenName(st, screenName) ==
    {i \in DOMAIN st : st[i].ScreenName = screenName}

\* SessionRegistry.AddSession(display): a new session that carries the name
AddSession(st, id, display) ==
    [NewSession(st, id) EXCEPT ![id].ScreenName = display]

\* SessionRetriever.RetrieveSession(ident): the sessions it can return
RetrieveSession(st, ident) ==
    {i \in DOMAIN st : IdentScreenName(st[i].ScreenName) = ident}

----------------------------------------------------------------------------
(* AuthService: sessions *)

\* a token nobody signed
ForgedCookie == [mac |-> "forged", payload |-> MarshalBOSCookie("Alice", "AIM/5.9")]

\* a signed token whose payload is no bosCookie
JunkCookie == Issue([kind |-> "junk", ScreenName |-> "", ClientID |-> ""])

\* the tokens presented to the BOS service
BOSCookies ==
    {Issue(MarshalBOSCookie("ALICE", "AIM/5.9")), Issue(MarshalBOSCookie("Alice", "")),
     Issue(MarshalBOSCookie("Bob", "AIM/5.9")), Issue(MarshalBOSCookie("10001", "ICQ")),
     Issue(MarshalBOSCookie("10002", "")), Issue(MarshalBOSCookie("7", "")),
     ForgedCookie, JunkCookie}

\* wire.MarshalBE / wire.UnmarshalBE of chatLoginCookie
MarshalChatCookie(chatCookie, screenName) ==
    [kind |-> "chat", ChatCookie |-> chatCookie, ScreenName |-> screenName]
UnmarshalChatCookieOK(buf) == buf.kind = "chat"

\* the tokens presented to the chat service
ChatCookies ==
    {Issue(MarshalChatCookie("room1", "Alice")), Issue(MarshalChatCookie("room1", "Bob")),
     Issue(MarshalChatCookie("room2", "Alice")),
     [mac |-> "forged", payload |-> MarshalChatCookie("room1", "Alice")],
     Issue([kind |-> "junk", ChatCookie |-> "", ScreenName |-> ""])}

\* the outcome of a session operation: the session returned (0: none), the
\* store it leaves, the calls made
SessOutcome(err, sess, st, calls) ==
    [err |-> err, sess |-> sess, store |-> st, calls |-> calls]

\* a flag setter that marks the confirmed accounts
setUnconfirmedFlag_Inverted(st, id, confirmed) ==
    IF confirmed THEN [st EXCEPT ![id].flags = @ \cup {"Unconfirmed"}] ELSE st

\* RegisterBOSSession: the unconfirmed user info flag
setUnconfirmedFlag(st, id, confirmed) ==
    IF confirmed THEN st ELSE [st EXCEPT ![id].flags = @ \cup {"Unconfirmed"}]

\* RegisterBOSSession against the user store us
RegisterBOSSessionWith(us, authCookie, fault) ==
    IF ~CrackOK(authCookie)
    THEN SessOutcome(TRUE, 0, store, <<"Crack">>)
    ELSE IF ~UnmarshalBOSCookieOK(Crack(authCookie))
    THEN SessOutcome(TRUE, 0, store, <<"Crack">>)
    ELSE LET c     == Crack(authCookie)
             ident == IdentScreenName(c.ScreenName)
         IN  IF fault = "User"
             THEN SessOutcome(TRUE, 0, store, <<"Crack", "User">>)
             ELSE IF ident \notin DOMAIN us
             THEN SessOutcome(TRUE, 0, store, <<"Crack", "User">>)
             ELSE LET u     == us[ident]
                      id    == nextID + 1
                      added == AddSession(store, id, u.DisplayScreenName)
                      calls == <<"Crack", "User", "AddSession", "ConfirmStatusByName">>
                      unconf == setUnconfirmedFlag(added, id, u.Confirmed)
                      client == [unconf EXCEPT ![id].ClientID = c.ClientID]
                      icq    == [client EXCEPT ![id].flags = @ \cup {"ICQ"}]
                      uin    == Atoi(IdentScreenName(u.DisplayScreenName))
                  IN  IF fault = "ConfirmStatusByName"
                      THEN SessOutcome(TRUE, 0, added, calls)
                      ELSE IF ~IsUIN(u.DisplayScreenName)
                      THEN SessOutcome(FALSE, id, client, calls)
                      ELSE IF ~uin.ok
                      THEN SessOutcome(TRUE, 0, icq, calls)
                      ELSE SessOutcome(FALSE, id, [icq EXCEPT ![id].UIN = uin.n], calls)

\* the outcome of RegisterBOSSession: the session, the registry it leaves
RegisterBOSSessionResult(authCookie, fault) ==
    RegisterBOSSessionWith(users, authCookie, fault)

\* whether a call sequence makes the call
Calls(calls, name) == \E i \in DOMAIN calls : calls[i] = name

RegisterBOSSession ==
    \E authCookie \in BOSCookies, fault \in {"none", "User", "ConfirmStatusByName"} :
        LET r == RegisterBOSSessionResult(authCookie, fault)
        IN  /\ Reached(fault, r.calls)
            /\ Calls(r.calls, "AddSession") => nextID < MaxSessions
            /\ store' = r.store
            /\ nextID' = IF Calls(r.calls, "AddSession") THEN nextID + 1 ELSE nextID
            /\ last' = [NoOp EXCEPT !.op = "RegisterBOSSession", !.in = authCookie,
                            !.fault = fault, !.err = r.err, !.sess = r.sess,
                            !.calls = r.calls]
            /\ UNCHANGED <<DisableAuth, users, chat, feedbag, goroutines, chatRegistry, broadcast, receivers, pumps, closed, server, conns,
                       tables>>

RetrieveBOSSessionResult(authCookie, fault) ==
    IF ~CrackOK(authCookie)
    THEN {SessOutcome(TRUE, 0, store, <<"Crack">>)}
    ELSE IF ~UnmarshalBOSCookieOK(Crack(authCookie))
    THEN {SessOutcome(TRUE, 0, store, <<"Crack">>)}
    ELSE LET ident == IdentScreenName(Crack(authCookie).ScreenName)
             calls == <<"Crack", "User", "RetrieveSession">>
         IN  IF fault = "User" \/ ident \notin DOMAIN users
             THEN {SessOutcome(TRUE, 0, store, <<"Crack", "User">>)}
             ELSE IF RetrieveSession(store, IdentScreenName(users[ident].DisplayScreenName)) = {}
             THEN {SessOutcome(FALSE, 0, store, calls)}
             ELSE {SessOutcome(FALSE, i, store, calls) :
                     i \in RetrieveSession(store,
                               IdentScreenName(users[ident].DisplayScreenName))}

RetrieveBOSSession ==
    \E authCookie \in BOSCookies, fault \in {"none", "User"} :
        \E r \in RetrieveBOSSessionResult(authCookie, fault) :
            /\ Reached(fault, r.calls)
            /\ last' = [NoOp EXCEPT !.op = "RetrieveBOSSession", !.in = authCookie,
                            !.fault = fault, !.err = r.err, !.sess = r.sess,
                            !.calls = r.calls]
            /\ UNCHANGED <<DisableAuth, users, store, nextID, chat, feedbag, goroutines, chatRegistry,
                       broadcast, receivers, pumps, closed, server, conns,
                       tables>>

\* a RegisterChatSession that drops the error of Crack
RegisterChatSessionResult_IgnoreCrackErr(authCookie) ==
    IF CrackOK(authCookie) /\ ~UnmarshalChatCookieOK(Crack(authCookie))
    THEN [err |-> TRUE, sess |-> 0, chat |-> chat, calls |-> <<"Crack">>]
    ELSE [err |-> FALSE, sess |-> nextID + 1,
          chat |-> [i \in DOMAIN chat \cup {nextID + 1} |->
                      IF i = nextID + 1
                      THEN [ChatCookie |-> authCookie.payload.ChatCookie,
                            ScreenName |-> authCookie.payload.ScreenName]
                      ELSE chat[i]],
          calls |-> <<"Crack", "AddSession">>]

\* the outcome of RegisterChatSession: the chat registry it leaves
RegisterChatSessionResult(authCookie) ==
    IF ~CrackOK(authCookie)
    THEN [err |-> TRUE, sess |-> 0, chat |-> chat, calls |-> <<"Crack">>]
    ELSE IF ~UnmarshalChatCookieOK(Crack(authCookie))
    THEN [err |-> TRUE, sess |-> 0, chat |-> chat, calls |-> <<"Crack">>]
    ELSE LET c  == Crack(authCookie)
             id == nextID + 1
         IN  [err |-> FALSE, sess |-> id,
              chat |-> [i \in DOMAIN chat \cup {id} |->
                          IF i = id
                          THEN [ChatCookie |-> c.ChatCookie, ScreenName |-> c.ScreenName]
                          ELSE chat[i]],
              calls |-> <<"Crack", "AddSession">>]

RegisterChatSession ==
    \E authCookie \in ChatCookies :
        LET r == RegisterChatSessionResult(authCookie)
        IN  /\ Calls(r.calls, "AddSession") => nextID < MaxSessions
            /\ chat' = r.chat
            /\ nextID' = IF Calls(r.calls, "AddSession") THEN nextID + 1 ELSE nextID
            /\ last' = [NoOp EXCEPT !.op = "RegisterChatSession", !.in = authCookie,
                            !.err = r.err, !.sess = r.sess, !.calls = r.calls]
            /\ UNCHANGED <<DisableAuth, users, store, feedbag, goroutines, chatRegistry, broadcast, receivers, pumps, closed, server, conns,
                       tables>>

\* AuthService.Signout(sess); bcastErr: BroadcastBuddyDeparted fails
SignoutResult(sess, bcastErr) ==
    IF bcastErr
    THEN SessOutcome(TRUE, sess, store, <<"BroadcastBuddyDeparted">>)
    ELSE SessOutcome(FALSE, sess, Remove(store, sess),
                     <<"BroadcastBuddyDeparted", "RemoveSession">>)

\* a caller signs out a session it holds: one that was registered, whether
\* or not it still is
Signout ==
    \E sess \in (1..nextID) \ DOMAIN chat, bcastErr \in BOOLEAN :
        LET r == SignoutResult(sess, bcastErr)
        IN  /\ store' = r.store
            /\ last' = [NoOp EXCEPT !.op = "Signout", !.in = <<sess>>,
                            !.fault = IF bcastErr THEN "BroadcastBuddyDeparted" ELSE "none",
                            !.err = r.err, !.sess = sess, !.calls = r.calls,
                            !.known = sess \in DOMAIN store]
            /\ UNCHANGED <<DisableAuth, users, nextID, chat, feedbag, goroutines, chatRegistry,
                       broadcast, receivers, pumps, closed, server, conns,
                       tables>>

\* OSCARProxy.Signout(me): unregErr: UnregisterBuddyList fails (logged)
ProxySignout ==
    \E me \in (1..nextID) \ DOMAIN chat, unregErr \in BOOLEAN, bcastErr \in BOOLEAN :
        LET r == SignoutResult(me, bcastErr)
        IN  /\ store' = r.store
            /\ last' = [NoOp EXCEPT !.op = "OSCARProxy.Signout", !.in = <<me>>,
                            !.fault = IF bcastErr THEN "BroadcastBuddyDeparted"
                                      ELSE IF unregErr THEN "UnregisterBuddyList"
                                      ELSE "none",
                            !.err = FALSE, !.sess = me,
                            !.calls = <<"UnregisterBuddyList">> \o r.calls,
                            !.known = me \in DOMAIN store]
            /\ UNCHANGED <<DisableAuth, users, nextID, chat, feedbag, goroutines, chatRegistry,
                       broadcast, receivers, pumps, closed, server, conns,
                       tables>>

\* ChatMessageRelayer.RelayToAllExcept: the participants of the room but
\* those of the excepted user
RelayToAllExcept(ch, cookie, except) ==
    {i \in DOMAIN ch :
        /\ ch[i].ChatCookie = cookie
        /\ IdentScreenName(ch[i].ScreenName) # IdentScreenName(except)}

\* alertUserLeft: the sessions RelayToAllExcept(cookie, exceptIdent) reaches
alertUserLeft(ch, sess) ==
    RelayToAllExcept(ch, ch[sess].ChatCookie, ch[sess].ScreenName)

\* a SignoutChat that alerts the room and leaves the participant registered
SignoutChatResult_NoRemove(sess) ==
    [chat  |-> chat,
     sent  |-> alertUserLeft(chat, sess),
     calls |-> <<"alertUserLeft">>]

\* the outcome of SignoutChat: the alert goes out on the registry as it is
\* before the participant is removed
SignoutChatResult(sess) ==
    [chat  |-> [i \in DOMAIN chat \ {sess} |-> chat[i]],
     sent  |-> alertUserLeft(chat, sess),
     calls |-> <<"alertUserLeft", "RemoveSession">>]

\* AuthService.SignoutChat(sess): alert the room, then remove the participant
SignoutChat ==
    \E sess \in DOMAIN chat :
        LET r == SignoutChatResult(sess)
        IN  /\ chat' = r.chat
            /\ last' = [NoOp EXCEPT !.op = "SignoutChat",
                            !.in = <<sess, chat[sess].ChatCookie>>, !.sess = sess,
                            !.sent = r.sent, !.calls = r.calls]
            /\ UNCHANGED <<DisableAuth, users, store, nextID, feedbag, goroutines, chatRegistry,
                       broadcast, receivers, pumps, closed, server, conns,
                       tables>>

----------------------------------------------------------------------------
(* FeedbagStore (oscar/feedbag_store.go).  The feedbag table is the set of  *)
(* its rows; a row has the columns of feedbagDDL but lastModified.         *)

\* the attribute tags Retrieve knows the kind of
FeedbagAttributesOrder  == 200
FeedbagAttributesPdMode == 202

\* TLVPayload.write: tag, length and value of each TLV, one after the other
RECURSIVE TLVPayload_write(_)
TLVPayload_write(tlvs) ==
    IF tlvs = <<>>
    THEN <<>>
    ELSE <<Head(tlvs).tType, Len(Head(tlvs).val)>> \o Head(tlvs).val \o TLVPayload_write(Tail(tlvs))

\* TLVPayload.read with the kinds Retrieve passes: a slice is its bytes, a
\* uint8 the first byte
RECURSIVE TLVPayload_read(_)
TLVPayload_read(buf) ==
    IF Len(buf) < 2
    THEN <<>>
    ELSE LET val == SubSeq(buf, 3, 2 + buf[2])
         IN  <<[tType |-> buf[1],
                val   |-> CASE buf[1] = FeedbagAttributesOrder  -> val
                            [] buf[1] = FeedbagAttributesPdMode -> <<val[1]>>]>>
             \o TLVPayload_read(SubSeq(buf, 3 + buf[2], Len(buf)))

\* the key of a feedbag row or item of screenName
KeyOf(screenName, r) == <<screenName, r.groupID, r.itemID>>

\* the row Upsert binds to its statement for one item
FeedbagRow(screenName, item) ==
    [ScreenName |-> screenName, groupID |-> item.groupID, itemID |-> item.itemID,
     classID |-> item.classID, name |-> item.name, attributes |-> TLVPayload_write(item.attributes)]

\* the rows the UNIQUE (ScreenName, groupID, itemID) constraint sets against row
Conflict(fb, row) ==
    {r \in fb : /\ r.ScreenName = row.ScreenName
                /\ r.groupID = row.groupID
                /\ r.itemID = row.itemID}

\* a plain INSERT into a table without the constraint
Exec_Insert(fb, row) == fb \cup {row}

\* Upsert's statement for one item: INSERT ... ON CONFLICT (ScreenName,
\* groupID, itemID) DO UPDATE SET classID, name, attributes
Exec(fb, row) == (fb \ Conflict(fb, row)) \cup {row}

RECURSIVE Upsert(_, _, _)
Upsert(fb, screenName, items) ==
    IF items = <<>>
    THEN fb
    ELSE Upsert(Exec(fb, FeedbagRow(screenName, Head(items))), screenName, Tail(items))

\* DELETE FROM feedbag WHERE ScreenName = ? AND itemID = ?, once per item
RECURSIVE Delete(_, _, _)
Delete(fb, screenName, items) ==
    IF items = <<>>
    THEN fb
    ELSE LET gone == {r \in fb : r.ScreenName = screenName /\ r.itemID = Head(items).itemID}
         IN  Delete(fb \ gone, screenName, Tail(items))

\* Retrieve: the items of screenName's rows, their attributes read back
Retrieve(fb, screenName) ==
    {[groupID |-> r.groupID, itemID |-> r.itemID, classID |-> r.classID,
      name |-> r.name, attributes |-> TLVPayload_read(r.attributes)] :
        r \in {q \in fb : q.ScreenName = screenName}}

\* the rows InterestedUsers selects; it returns the ScreenName of each, so a
\* name comes once per selected row
InterestedUsers(fb, screenName) ==
    {f \in fb :
        /\ f.name = screenName
        /\ f.classID = 0
        /\ ~ \E k \in fb :
                k.ScreenName = f.ScreenName /\ k.name = screenName /\ k.classID = 3}

\* the rows Buddies selects; it returns the name of each: the buddies of
\* screenName who do not deny screenName and whom screenName does not deny
Buddies(fb, screenName) ==
    {f \in fb :
        /\ f.ScreenName = screenName
        /\ f.classID = 0
        /\ ~ \E k \in fb :
                k.ScreenName = f.name /\ k.name = screenName /\ k.classID = 3
        /\ ~ \E k \in fb :
                k.ScreenName = screenName /\ k.name = f.name /\ k.classID = 3}

\* RetrieveByScreenNames over the names InterestedUsers returned: one entry
\* per selected row and session of that name
RetrieveByScreenNames(st, fb, rows) ==
    {<<f, i>> \in rows \X DOMAIN st : st[i].ScreenName = f.ScreenName}

\* NotifyArrival / NotifyDeparture: the number of messages handed to each
\* session of the store
Notify(st, fb, sess) ==
    LET sessions == RetrieveByScreenNames(st, fb, InterestedUsers(fb, st[sess].ScreenName))
    IN  [i \in DOMAIN st |-> Cardinality({p \in sessions : p[2] = i})]

\* the screen names and feedbag items of the presence study
PresenceNames == {"Alice", "Bob"}

FeedbagItems ==
    [groupID : {1}, itemID : {1, 2}, classID : {0, 3}, name : PresenceNames,
     attributes : {<<>>}]

CallNewSession ==
    \E uuidErr \in BOOLEAN :
        /\ nextID < MaxSessions
        /\ store' = IF uuidErr THEN store ELSE NewSession(store, nextID + 1)
        /\ nextID' = IF uuidErr THEN nextID ELSE nextID + 1
        /\ last' = [NoOp EXCEPT !.op = "NewSession", !.err = uuidErr,
                        !.fault = IF uuidErr THEN "NewUUID" ELSE "none",
                        !.sess = IF uuidErr THEN 0 ELSE nextID + 1]
        /\ UNCHANGED <<DisableAuth, users, chat, feedbag, goroutines, chatRegistry, broadcast, receivers, pumps, closed, server, conns,
                       tables>>

\* the signon path names the session it created
AssignScreenName ==
    \E sess \in DOMAIN store, screenName \in PresenceNames :
        /\ store[sess].ScreenName = ""
        /\ store' = [store EXCEPT ![sess].ScreenName = screenName]
        /\ last' = [NoOp EXCEPT !.op = "AssignScreenName", !.sess = sess]
        /\ UNCHANGED <<DisableAuth, users, nextID, chat, feedbag, goroutines, chatRegistry,
                       broadcast, receivers, pumps, closed, server, conns,
                       tables>>

CallRemove ==
    \E sess \in 1..nextID :
        /\ store' = Remove(store, sess)
        /\ last' = [NoOp EXCEPT !.op = "Remove", !.sess = sess,
                        !.known = sess \in DOMAIN store]
        /\ UNCHANGED <<DisableAuth, users, nextID, chat, feedbag, goroutines, chatRegistry,
                       broadcast, receivers, pumps, closed, server, conns,
                       tables>>

CallRetrieveByScreenName ==
    \E screenName \in PresenceNames :
        /\ \/ /\ RetrieveByScreenName(store, screenName) = {}
              /\ last' = [NoOp EXCEPT !.op = "RetrieveByScreenName",
                              !.in = <<screenName>>, !.err = TRUE]
           \/ \E sess \in RetrieveByScreenName(store, screenName) :
                 last' = [NoOp EXCEPT !.op = "RetrieveByScreenName",
                              !.in = <<screenName>>, !.sess = sess]
        /\ UNCHANGED <<DisableAuth, users, store, nextID, chat, feedbag, goroutines, chatRegistry,
                       broadcast, receivers, pumps, closed, server, conns,
                       tables>>

CallUpsert ==
    \E screenName \in PresenceNames, item \in FeedbagItems :
        /\ feedbag' = Upsert(feedbag, screenName, <<item>>)
        /\ last' = [NoOp EXCEPT !.op = "Upsert"]
        /\ UNCHANGED <<DisableAuth, users, store, nextID, chat, goroutines, chatRegistry,
                       broadcast, receivers, pumps, closed, server, conns,
                       tables>>

CallDelete ==
    \E screenName \in PresenceNames, item \in FeedbagItems :
        /\ feedbag' = Delete(feedbag, screenName, <<item>>)
        /\ last' = [NoOp EXCEPT !.op = "Delete"]
        /\ UNCHANGED <<DisableAuth, users, store, nextID, chat, goroutines, chatRegistry,
                       broadcast, receivers, pumps, closed, server, conns,
                       tables>>

\* the items of the feedbag study: three keys per user, and attributes of
\* the two kinds Retrieve reads
BagAttributes ==
    {<<>>,
     <<[tType |-> FeedbagAttributesOrder, val |-> <<0, 1>>]>>,
     <<[tType |-> FeedbagAttributesPdMode, val |-> <<1>>]>>}

BagItems ==
    {item \in [groupID : {1, 2}, itemID : {1, 2}, classID : {0, 3}, name : {"Bob"},
               attributes : BagAttributes] :
        /\ ~(item.groupID = 2 /\ item.itemID = 2)
        /\ item.attributes # <<>> => item.classID = 0 /\ item.groupID = 1}

\* the item lists of one Upsert call: one item, or the same key twice
BagUpserts ==
    {<<item>> : item \in BagItems}
    \cup {<<a, b>> : <<a, b>> \in
            {p \in BagItems \X BagItems :
                /\ p[1].groupID = 1 /\ p[1].itemID = 1 /\ p[2].groupID = 1 /\ p[2].itemID = 1
                /\ p[1].attributes = <<>> /\ p[2].attributes # <<>>}}

\* Upsert(screenName, items); failAt > 0: the statement of that item fails
\* and Upsert returns its error, the items before it stay written
UpsertItems ==
    \E screenName \in PresenceNames, items \in BagUpserts, failAt \in 0..2 :
        /\ failAt <= Len(items)
        /\ screenName = "Bob" => Len(items) = 1 /\ KeyOf(screenName, items[1]) = <<"Bob", 1, 1>>
        /\ LET done == IF failAt = 0 THEN items ELSE SubSeq(items, 1, failAt - 1)
               row  == FeedbagRow(screenName, items[Len(items)])
           IN  /\ feedbag' = Upsert(feedbag, screenName, done)
               /\ last' = [NoOp EXCEPT !.op = "Upsert", !.in = <<screenName, done>>,
                               !.err = failAt > 0,
                               !.known = Conflict(feedbag, row) \notin {{}, {row}}]
        /\ UNCHANGED <<DisableAuth, users, store, nextID, chat, goroutines, chatRegistry,
                       broadcast, receivers, pumps, closed, server, conns,
                       tables>>

\* Delete(screenName, items) of one item
DeleteItems ==
    \E screenName \in PresenceNames, itemID \in {1, 2}, groupID \in {1, 2} :
        /\ feedbag' = Delete(feedbag, screenName,
                             <<[groupID |-> groupID, itemID |-> itemID]>>)
        /\ last' = [NoOp EXCEPT !.op = "Delete",
                                !.in = <<screenName, itemID, groupID>>]
        /\ UNCHANGED <<DisableAuth, users, store, nextID, chat, goroutines, chatRegistry,
                       broadcast, receivers, pumps, closed, server, conns,
                       tables>>

\* Retrieve(screenName)
CallRetrieve ==
    \E screenName \in PresenceNames :
        /\ last' = [NoOp EXCEPT !.op = "Retrieve", !.in = <<screenName>>,
                        !.sent = Retrieve(feedbag, screenName)]
        /\ UNCHANGED <<DisableAuth, users, store, nextID, chat, feedbag, goroutines,
                       chatRegistry, broadcast, receivers, pumps, closed, server, conns,
                       tables>>

\* UpsertUser's statement: INSERT INTO user ... ON CONFLICT DO NOTHING
UpsertUser(t, screenName) == [t EXCEPT !.user = @ \cup {[ScreenName |-> screenName]}]

\* UpsertProfile's statement: INSERT INTO profile ... ON CONFLICT (ScreenName)
\* DO UPDATE SET body
UpsertProfile(t, screenName, body) ==
    [t EXCEPT !.profile = {p \in @ : p.ScreenName # screenName}
                          \cup {[ScreenName |-> screenName, body |-> <<body>>]}]

\* an inner join: a user without a profile gives no row
Join_Inner(t) ==
    {[u |-> u, p |-> <<p>>] : <<u, p>> \in {x \in t.user \X t.profile :
                                              x[2].ScreenName = x[1].ScreenName}}

\* FROM user u LEFT JOIN profile p ON p.ScreenName = u.ScreenName: a row for
\* each pair that matches, and a row without p for a user that has no match
Join(t) ==
    {[u |-> u, p |-> <<p>>] : <<u, p>> \in {x \in t.user \X t.profile :
                                              x[2].ScreenName = x[1].ScreenName}}
    \cup {[u |-> u, p |-> <<>>] :
            u \in {v \in t.user : ~ \E p \in t.profile : p.ScreenName = v.ScreenName}}

\* IFNULL(body, ''): body is NULL in a row without p
IFNULL(body, default) == IF body = <<>> THEN default ELSE body[1]

\* the rows of RetrieveProfile's query: SELECT IFNULL(body, '') ... WHERE
\* u.ScreenName = ?
ProfileRows(t, screenName) ==
    {IFNULL(IF r.p = <<>> THEN <<>> ELSE r.p[1].body, "") :
        r \in {j \in Join(t) : j.u.ScreenName = screenName}}

\* RetrieveProfile: QueryRow scans the first row; sql.ErrNoRows becomes
\* errUserNotExist, any other error is returned as it is
RetrieveProfile(t, screenName, dbErr) ==
    IF dbErr
    THEN {[profile |-> "", err |-> "db"]}
    ELSE IF ProfileRows(t, screenName) = {}
         THEN {[profile |-> "", err |-> "errUserNotExist"]}
         ELSE {[profile |-> body, err |-> "nil"] : body \in ProfileRows(t, screenName)}

\* the profile bodies of the study
ProfileBodies == {"", "hi", "bye"}

CallUpsertUser ==
    \E screenName \in PresenceNames, dbErr \in BOOLEAN :
        /\ tables' = IF dbErr THEN tables ELSE UpsertUser(tables, screenName)
        /\ last' = [NoOp EXCEPT !.op = "UpsertUser", !.in = <<screenName>>, !.err = dbErr]
        /\ UNCHANGED <<DisableAuth, users, store, nextID, chat, feedbag, goroutines,
                       chatRegistry, broadcast, receivers, pumps, closed, server, conns>>

CallUpsertProfile ==
    \E screenName \in PresenceNames, body \in ProfileBodies, dbErr \in BOOLEAN :
        /\ tables' = IF dbErr THEN tables ELSE UpsertProfile(tables, screenName, body)
        /\ last' = [NoOp EXCEPT !.op = "UpsertProfile", !.in = <<screenName, body>>,
                        !.err = dbErr]
        /\ UNCHANGED <<DisableAuth, users, store, nextID, chat, feedbag, goroutines,
                       chatRegistry, broadcast, receivers, pumps, closed, server, conns>>

CallRetrieveProfile ==
    \E screenName \in PresenceNames, dbErr \in BOOLEAN :
        \E r \in RetrieveProfile(tables, screenName, dbErr) :
            /\ last' = [NoOp EXCEPT !.op = "RetrieveProfile", !.in = <<screenName>>,
                            !.err = r.err # "nil", !.fault = r.err,
                            !.reply = <<r.profile>>]
            /\ UNCHANGED <<DisableAuth, users, store, nextID, chat, feedbag, goroutines,
                           chatRegistry, broadcast, receivers, pumps, closed, server, conns,
                           tables>>

\* dbErr: the InterestedUsers query fails
NotifyArrival ==
    \E sess \in DOMAIN store, dbErr \in BOOLEAN :
        /\ last' = [NoOp EXCEPT !.op = "NotifyArrival", !.sess = sess, !.err = dbErr,
                        !.fault = IF dbErr THEN "InterestedUsers" ELSE "none",
                        !.sent = IF dbErr THEN <<>> ELSE Notify(store, feedbag, sess)]
        /\ UNCHANGED <<DisableAuth, users, store, nextID, chat, feedbag, goroutines, chatRegistry,
                       broadcast, receivers, pumps, closed, server, conns,
                       tables>>

NotifyDeparture ==
    \E sess \in DOMAIN store, dbErr \in BOOLEAN :
        /\ last' = [NoOp EXCEPT !.op = "NotifyDeparture", !.sess = sess, !.err = dbErr,
                        !.fault = IF dbErr THEN "InterestedUsers" ELSE "none",
                        !.sent = IF dbErr THEN <<>> ELSE Notify(store, feedbag, sess)]
        /\ UNCHANGED <<DisableAuth, users, store, nextID, chat, feedbag, goroutines, chatRegistry,
                       broadcast, receivers, pumps, closed, server, conns,
                       tables>>

----------------------------------------------------------------------------
(* SNAC routers of the oscar package: routeBuddy (buddy.go) and             *)
(* routeChatNav.  The subgroup comes from the client's SNAC frame.          *)

BuddyErr == 1
BuddyRightsQuery == 2
BuddyAddBuddies == 4
BuddyDelBuddies == 5
BuddyWatcherListQuery == 6
BuddyWatcherSubRequest == 8
BuddyWatcherNotification == 9
BuddyRejectNotification == 10
BuddyArrived == 11
BuddyDeparted == 12
BuddyAddTempBuddies == 15
BuddyDelTempBuddies == 16

ChatNavErr == 1
ChatNavRequestChatRights == 2
ChatNavRequestExchangeInfo == 3
ChatNavRequestRoomInfo == 4
ChatNavRequestMoreRoomInfo == 5
ChatNavRequestOccupantList == 6
ChatNavSearchForRoom == 7
ChatNavCreateRoom == 8
ChatNavNavInfo == 9

\* the subgroups a client can put in a frame: every one the routers name
\* and some they do not
SubGroups == 0..17

\* what a router call comes to: a panic, an error value, or nil with the
\* SNACs written to the client
Routed(panic, err, reply) == [panic |-> panic, err |-> err, reply |-> reply]

\* a SendAndReceive* handler: reads the payload, writes one reply SNAC; ioErr:
\* the read or the write fails
SendAndReceive(replySNAC, ioErr) ==
    IF ioErr THEN Routed(FALSE, TRUE, <<>>) ELSE Routed(FALSE, FALSE, <<replySNAC>>)

routeBuddy(subGroup, ioErr) ==
    CASE subGroup = BuddyErr                 -> Routed(TRUE, FALSE, <<>>)
      [] subGroup = BuddyRightsQuery         -> SendAndReceive("BuddyRightsReply", ioErr)
      [] subGroup = BuddyAddBuddies          -> Routed(TRUE, FALSE, <<>>)
      [] subGroup = BuddyDelBuddies          -> Routed(TRUE, FALSE, <<>>)
      [] subGroup = BuddyWatcherListQuery    -> Routed(TRUE, FALSE, <<>>)
      [] subGroup = BuddyWatcherSubRequest   -> Routed(TRUE, FALSE, <<>>)
      [] subGroup = BuddyWatcherNotification -> Routed(TRUE, FALSE, <<>>)
      [] subGroup = BuddyRejectNotification  -> Routed(TRUE, FALSE, <<>>)
      [] subGroup = BuddyArrived             -> Routed(TRUE, FALSE, <<>>)
      [] subGroup = BuddyDeparted            -> Routed(TRUE, FALSE, <<>>)
      [] subGroup = BuddyAddTempBuddies      -> Routed(TRUE, FALSE, <<>>)
      [] subGroup = BuddyDelTempBuddies      -> Routed(TRUE, FALSE, <<>>)
      [] OTHER                               -> Routed(FALSE, FALSE, <<>>)

routeChatNav(subGroup, ioErr) ==
    CASE subGroup = ChatNavErr                 -> Routed(TRUE, FALSE, <<>>)
      [] subGroup = ChatNavRequestChatRights   -> SendAndReceive("ChatNavNavInfo", ioErr)
      [] subGroup = ChatNavRequestExchangeInfo -> Routed(TRUE, FALSE, <<>>)
      [] subGroup = ChatNavRequestRoomInfo     -> Routed(TRUE, FALSE, <<>>)
      [] subGroup = ChatNavRequestMoreRoomInfo -> Routed(TRUE, FALSE, <<>>)
      [] subGroup = ChatNavRequestOccupantList -> Routed(TRUE, FALSE, <<>>)
      [] subGroup = ChatNavSearchForRoom       -> Routed(TRUE, FALSE, <<>>)
      [] subGroup = ChatNavCreateRoom          -> SendAndReceive("ChatNavNavInfo", ioErr)
      [] subGroup = ChatNavNavInfo             -> Routed(TRUE, FALSE, <<>>)
      [] OTHER                                 -> Routed(FALSE, FALSE, <<>>)

RouteRecord(op, subGroup, ioErr, r) ==
    [NoOp EXCEPT !.op = op, !.in = <<subGroup>>,
                 !.fault = IF ioErr THEN "io" ELSE "none",
                 !.err = r.err, !.panic = r.panic, !.reply = r.reply]

RouteBuddy ==
    \E subGroup \in SubGroups, ioErr \in BOOLEAN :
        /\ ioErr => subGroup = BuddyRightsQuery
        /\ last' = RouteRecord("routeBuddy", subGroup, ioErr, routeBuddy(subGroup, ioErr))
        /\ UNCHANGED <<DisableAuth, users, store, nextID, chat, feedbag,
                       goroutines, chatRegistry, broadcast, receivers, pumps, closed, server, conns,
                       tables>>

RouteChatNav ==
    \E subGroup \in SubGroups, ioErr \in BOOLEAN :
        /\ ioErr => subGroup \in {ChatNavRequestChatRights, ChatNavCreateRoom}
        /\ last' = RouteRecord("routeChatNav", subGroup, ioErr,
                               routeChatNav(subGroup, ioErr))
        /\ UNCHANGED <<DisableAuth, users, store, nextID, chat, feedbag,
                       goroutines, chatRegistry, broadcast, receivers, pumps, closed, server, conns,
                       tables>>

----------------------------------------------------------------------------
(* The send loop of NotifyArrival / NotifyDeparture, one SendMessage at a   *)
(* time.  MsgChan is made without a buffer, so a message passes only while *)
(* the session's connection is receiving from it.                          *)

NoBroadcast == [pc |-> "idle", op |-> "", sess |-> 0, todo |-> {},
                handed |-> {}, dropped |-> {}]

\* a SendMessage that waits for the receiver
SendMessage_Blocking(rcv, id) ==
    IF id \in rcv THEN "handed" ELSE "blocked"

\* Session.SendMessage on the unbuffered MsgChan: the message is handed over
\* if the connection is receiving and dropped otherwise; the caller is never
\* made to wait
SendMessage(rcv, id) ==
    IF id \in rcv THEN "handed" ELSE "dropped"

\* the connection of a session starts or stops receiving from MsgChan
ReceiverReady ==
    \E id \in DOMAIN store \ receivers :
        /\ receivers' = receivers \cup {id}
        /\ UNCHANGED <<DisableAuth, users, store, nextID, chat, feedbag, last,
                       goroutines, chatRegistry, broadcast, pumps, closed, server, conns,
                       tables>>

ReceiverBusy ==
    \E id \in receivers :
        /\ receivers' = receivers \ {id}
        /\ UNCHANGED <<DisableAuth, users, store, nextID, chat, feedbag, last,
                       goroutines, chatRegistry, broadcast, pumps, closed, server, conns,
                       tables>>

\* NotifyArrival / NotifyDeparture up to the loop: the sessions to notify
NotifyBegin ==
    \E op \in {"NotifyArrival", "NotifyDeparture"},
       sess \in DOMAIN store, dbErr \in BOOLEAN :
        /\ broadcast.pc \in {"idle", "returned"}
        /\ broadcast' =
              IF dbErr
              THEN [NoBroadcast EXCEPT !.pc = "returned", !.op = op, !.sess = sess]
              ELSE [NoBroadcast EXCEPT !.pc = "loop", !.op = op, !.sess = sess,
                        !.todo = RetrieveByScreenNames(store, feedbag,
                                    InterestedUsers(feedbag, store[sess].ScreenName))]
        /\ last' = [NoOp EXCEPT !.op = op, !.sess = sess, !.err = dbErr,
                        !.fault = IF dbErr THEN "InterestedUsers" ELSE "none"]
        /\ UNCHANGED <<DisableAuth, users, store, nextID, chat, feedbag,
                       goroutines, chatRegistry, receivers, pumps, closed, server, conns,
                       tables>>

\* one iteration of the loop: adjSess.SendMessage(...)
NotifySend ==
    \E p \in broadcast.todo :
        LET r == SendMessage(receivers, p[2])
        IN  /\ broadcast.pc = "loop"
            /\ r # "blocked"
            /\ broadcast' = [broadcast EXCEPT
                    !.todo = @ \ {p},
                    !.handed = IF r = "handed" THEN @ \cup {p} ELSE @,
                    !.dropped = IF r = "dropped" THEN @ \cup {p} ELSE @]
            /\ UNCHANGED <<DisableAuth, users, store, nextID, chat, feedbag, last,
                           goroutines, chatRegistry, receivers, pumps, closed, server, conns,
                       tables>>

\* the loop is over: return nil
NotifyReturn ==
    /\ broadcast.pc = "loop"
    /\ broadcast.todo = {}
    /\ broadcast' = [broadcast EXCEPT !.pc = "returned"]
    /\ UNCHANGED <<DisableAuth, users, store, nextID, chat, feedbag, last,
                   goroutines, chatRegistry, receivers, pumps, closed, server, conns,
                       tables>>

----------------------------------------------------------------------------
(* Session methods under concurrent callers (oscar/session.go).  Every      *)
(* method takes Mutex.RLock, a shared lock: it never excludes another       *)
(* caller, so the loads and stores of the callers interleave freely.  A Go  *)
(* string is a two-word header (data pointer, length) stored word by word. *)

UInt16 == 65536

Goroutines == 1..MaxGoroutines

SessionMethods == {"IncreaseWarning", "SetAwayMessage", "GetAwayMessage", "GetWarning"}

Incrs == {1, 65535}

AwayMessages == {[data |-> "brb", len |-> 3], [data |-> "gone out", len |-> 8]}

Idle == [op |-> "", pc |-> "idle", incr |-> 0, msg |-> NoAwayMessage,
         w |-> 0, ret |-> NoAwayMessage]

NoGoroutines == [g \in Goroutines |-> Idle]

\* the one session the goroutines share
Shared == 1

At(g, op, pc) == goroutines[g].op = op /\ goroutines[g].pc = pc

\* s.Mutex.RLock() at the head of every method: granted whenever no writer
\* holds the mutex, and no method ever takes the write lock
RLock ==
    \E g \in Goroutines, op \in SessionMethods,
       incr \in Incrs, msg \in AwayMessages :
        /\ goroutines[g].pc = "idle"
        /\ Shared \in DOMAIN store
        /\ goroutines' = [goroutines EXCEPT ![g] =
              [Idle EXCEPT !.op = op, !.pc = "locked",
                           !.incr = IF op = "IncreaseWarning" THEN incr ELSE 0,
                           !.msg = IF op = "SetAwayMessage" THEN msg ELSE NoAwayMessage]]
        /\ UNCHANGED <<DisableAuth, users, store, nextID, chat, feedbag, last,
                       chatRegistry,
                       broadcast, receivers, pumps, closed, server, conns,
                       tables>>

\* the load of s.Warning in `s.Warning += incr` and in `w = s.Warning`
LoadWarning ==
    \E g \in Goroutines :
        /\ At(g, "IncreaseWarning", "locked") \/ At(g, "GetWarning", "locked")
        /\ goroutines' = [goroutines EXCEPT ![g].w = store[Shared].Warning,
                                            ![g].pc = "loaded"]
        /\ UNCHANGED <<DisableAuth, users, store, nextID, chat, feedbag, last,
                       chatRegistry,
                       broadcast, receivers, pumps, closed, server, conns,
                       tables>>

\* the store of `s.Warning += incr`, a uint16
StoreWarning ==
    \E g \in Goroutines :
        /\ At(g, "IncreaseWarning", "loaded")
        /\ store' = [store EXCEPT ![Shared].Warning =
                        (goroutines[g].w + goroutines[g].incr) % UInt16]
        /\ goroutines' = [goroutines EXCEPT ![g].pc = "stored"]
        /\ UNCHANGED <<DisableAuth, users, nextID, chat, feedbag, last, chatRegistry,
                       broadcast, receivers, pumps, closed, server, conns,
                       tables>>

\* `s.AwayMessage = awayMessage`: the data word, then the length word
StoreAwayData ==
    \E g \in Goroutines :
        /\ At(g, "SetAwayMessage", "locked")
        /\ store' = [store EXCEPT ![Shared].AwayMessage.data = goroutines[g].msg.data]
        /\ goroutines' = [goroutines EXCEPT ![g].pc = "data"]
        /\ UNCHANGED <<DisableAuth, users, nextID, chat, feedbag, last, chatRegistry,
                       broadcast, receivers, pumps, closed, server, conns,
                       tables>>

StoreAwayLen ==
    \E g \in Goroutines :
        /\ At(g, "SetAwayMessage", "data")
        /\ store' = [store EXCEPT ![Shared].AwayMessage.len = goroutines[g].msg.len]
        /\ goroutines' = [goroutines EXCEPT ![g].pc = "stored"]
        /\ UNCHANGED <<DisableAuth, users, nextID, chat, feedbag, last, chatRegistry,
                       broadcast, receivers, pumps, closed, server, conns,
                       tables>>

\* `return s.AwayMessage`: the data word, then the length word
LoadAwayData ==
    \E g \in Goroutines :
        /\ At(g, "GetAwayMessage", "locked")
        /\ goroutines' = [goroutines EXCEPT ![g].ret.data = store[Shared].AwayMessage.data,
                                            ![g].pc = "data"]
        /\ UNCHANGED <<DisableAuth, users, store, nextID, chat, feedbag, last,
                       chatRegistry,
                       broadcast, receivers, pumps, closed, server, conns,
                       tables>>

LoadAwayLen ==
    \E g \in Goroutines :
        /\ At(g, "GetAwayMessage", "data")
        /\ goroutines' = [goroutines EXCEPT ![g].ret.len = store[Shared].AwayMessage.len,
                                            ![g].pc = "loaded"]
        /\ UNCHANGED <<DisableAuth, users, store, nextID, chat, feedbag, last,
                       chatRegistry,
                       broadcast, receivers, pumps, closed, server, conns,
                       tables>>

\* s.Mutex.RUnlock(), deferred or explicit: the method returns
RUnlock ==
    \E g \in Goroutines :
        /\ goroutines[g].pc \in {"loaded", "stored"}
        /\ ~At(g, "IncreaseWarning", "loaded")
        /\ goroutines' = [goroutines EXCEPT ![g].pc = "returned"]
        /\ UNCHANGED <<DisableAuth, users, store, nextID, chat, feedbag, last,
                       chatRegistry,
                       broadcast, receivers, pumps, closed, server, conns,
                       tables>>

\* the methods of SessionManager; each guards the store map with mapMutex
ManagerMethods ==
    {"Retrieve", "RetrieveByScreenName", "RetrieveByScreenNames", "NewSession",
     "Remove"}

\* the methods that write the store map
WritesMap(op) == op \in {"NewSession", "Remove"}

\* goroutine g is between the lock call of its method and its unlock
HoldsMapMutex(g) == goroutines[g].pc \in {"locked", "accessing", "accessed"}

\* s.mapMutex.RLock() at the head of Retrieve, RetrieveByScreenName,
\* RetrieveByScreenNames and NewSession: granted while no goroutine holds
\* the write lock
MapRLock ==
    \E g \in Goroutines, op \in ManagerMethods \ {"Remove"} :
        /\ ~last.panic
        /\ goroutines[g].pc = "idle"
        /\ op = "NewSession" =>
              Cardinality({h \in Goroutines : goroutines[h].op = "NewSession"})
                  < MaxSessions
        /\ ~ \E h \in Goroutines : HoldsMapMutex(h) /\ goroutines[h].op = "Remove"
        /\ goroutines' = [goroutines EXCEPT ![g] =
              [Idle EXCEPT !.op = op, !.pc = "locked"]]
        /\ UNCHANGED <<DisableAuth, users, store, nextID, last, chat, feedbag,
                       chatRegistry,
                       broadcast, receivers, pumps, closed, server, conns,
                       tables>>

\* s.mapMutex.Lock() at the head of Remove: granted while no goroutine holds
\* the mutex
MapLock ==
    \E g \in Goroutines :
        /\ ~last.panic
        /\ goroutines[g].pc = "idle"
        /\ ~ \E h \in Goroutines : HoldsMapMutex(h)
        /\ goroutines' = [goroutines EXCEPT ![g] =
              [Idle EXCEPT !.op = "Remove", !.pc = "locked"]]
        /\ UNCHANGED <<DisableAuth, users, store, nextID, last, chat, feedbag,
                       chatRegistry,
                       broadcast, receivers, pumps, closed, server, conns,
                       tables>>

\* the method reaches its access of s.store: the lookup or range loop, the
\* assignment of NewSession (not reached when uuid.NewUUID fails), the
\* delete of Remove
MapAccess ==
    \E g \in Goroutines, uuidErr \in BOOLEAN :
        /\ ~last.panic
        /\ goroutines[g].pc = "locked"
        /\ uuidErr => goroutines[g].op = "NewSession"
        /\ goroutines' = [goroutines EXCEPT ![g].pc =
                              IF uuidErr THEN "accessed" ELSE "accessing"]
        /\ UNCHANGED <<DisableAuth, users, store, nextID, last, chat, feedbag,
                       chatRegistry,
                       broadcast, receivers, pumps, closed, server, conns,
                       tables>>

\* an access of the map by g overlaps a write: g writes while another
\* goroutine is in its access, or another goroutine writes while g is
Overlaps(g) ==
    \E h \in Goroutines \ {g} :
        /\ goroutines[h].pc = "accessing"
        /\ WritesMap(goroutines[g].op) \/ WritesMap(goroutines[h].op)

\* the access of s.store completes.  An access that overlapped a write is a
\* data race on the map: the runtime may stop the program with a fatal
\* error, the write may be lost, or the access may go through
MapAccessed ==
    \E g \in Goroutines, outcome \in {"done", "lost", "fatal"} :
        /\ ~last.panic
        /\ goroutines[g].pc = "accessing"
        /\ outcome # "done" => Overlaps(g)
        /\ outcome = "lost" => WritesMap(goroutines[g].op)
        /\ store' = IF outcome # "done" THEN store
                     ELSE IF goroutines[g].op = "NewSession"
                     THEN NewSession(store, nextID + 1)
                     ELSE IF goroutines[g].op = "Remove"
                     THEN Remove(store, Shared)
                     ELSE store
        /\ nextID' = IF goroutines[g].op = "NewSession" /\ outcome # "fatal"
                      THEN nextID + 1 ELSE nextID
        /\ last' = [NoOp EXCEPT !.op = goroutines[g].op, !.sess = g,
                                !.panic = (outcome = "fatal"),
                                !.err = (outcome = "lost")]
        /\ goroutines' = [goroutines EXCEPT ![g].pc = "accessed"]
        /\ UNCHANGED <<DisableAuth, users, chat, feedbag,
                       chatRegistry,
                       broadcast, receivers, pumps, closed, server, conns,
                       tables>>

\* the deferred s.mapMutex.RUnlock() or s.mapMutex.Unlock(): the method
\* returns
MapUnlock ==
    \E g \in Goroutines :
        /\ ~last.panic
        /\ goroutines[g].pc = "accessed"
        /\ goroutines[g].op \in ManagerMethods
        /\ goroutines' = [goroutines EXCEPT ![g].pc = "returned"]
        /\ UNCHANGED <<DisableAuth, users, store, nextID, last, chat, feedbag,
                       chatRegistry,
                       broadcast, receivers, pumps, closed, server, conns,
                       tables>>

----------------------------------------------------------------------------
(* The TOC proxy (part_000).  A command line is held as the fields the CSV  *)
(* reader splits it into; a reply line as a tuple of its ':' separated     *)
(* fields.                                                                 *)

\* the reply of runtimeErr: the one code of internal errors
cmdInternalSvcErr == <<"ERROR", "989">>

\* no reply line
NoReply == <<>>

\* parseArgs: csvErr is an error of reader.Read; nargs positional arguments
\* are taken after the command name, the rest are varargs
parseArgs(segs, csvErr, cmd, nargs) ==
    IF csvErr \/ segs[1] # cmd \/ Len(segs) - 1 < nargs
    THEN [err |-> TRUE, args |-> <<>>, varArgs |-> <<>>]
    ELSE [err |-> FALSE,
          args |-> SubSeq(segs, 2, nargs + 1),
          varArgs |-> SubSeq(segs, nargs + 2, Len(segs))]

HexDigits == {"0", "1", "2", "4", "5", "e"}

\* the roasted form of pw1 in hex, as a TOC client sends it after "0x"
HexOfPw1 == <<"2", "4", "1", "e", "5", "2">>

\* hex.DecodeString: an error on an odd length or a digit that is not hex;
\* the bytes are held as the roasted password they spell
HexDecodeString(str) ==
    IF Len(str) % 2 = 1 \/ \E i \in DOMAIN str : str[i] \notin HexDigits
    THEN [err |-> TRUE, bytes |-> RoastTOC("")]
    ELSE [err |-> FALSE,
          bytes |-> IF str = HexOfPw1 THEN RoastTOC("pw1")
                    ELSE IF str = <<>> THEN RoastTOC("")
                    ELSE RoastTOC("other")]

\* a Signon that returns its two lines the other way round
SignedOn_LinesSwapped(panic, sess, reply, us, st, calls, block) ==
    [panic |-> panic, sess |-> sess,
     reply |-> IF Len(reply) = 2 THEN <<reply[2], reply[1]>> ELSE reply,
     users |-> us, store |-> st, calls |-> calls, block |-> block]

\* what Signon returns: a panic, or the session (0: nil) and the reply
\* lines; the stores it leaves and the calls it made
SignedOn(panic, sess, reply, us, st, calls, block) ==
    [panic |-> panic, sess |-> sess, reply |-> reply, users |-> us, store |-> st,
     calls |-> calls, block |-> block]

\* TOCConfigStore.User(ident).TOCConfig: the configuration saved for the user
TOCConfig(ident) == IF ident = "alice" THEN "m 1" ELSE ""

\* OSCARProxy.Signon on the line segs
SignonResult(segs, csvErr, fault) ==
    LET p == parseArgs(segs, csvErr, "toc_signon", 4)
    IN  IF p.err
        THEN SignedOn(FALSE, 0, <<cmdInternalSvcErr>>, users, store, <<>>, NoBlock)
        ELSE
    LET userName == p.args[3]
        password == p.args[4]
    IN  IF Len(password) < 2
        THEN SignedOn(TRUE, 0, <<>>, users, store, <<>>, NoBlock)
        ELSE
    LET h == HexDecodeString(SubSeq(password, 3, Len(password)))
    IN  IF h.err
        THEN SignedOn(FALSE, 0, <<cmdInternalSvcErr>>, users, store, <<>>, NoBlock)
        ELSE
    LET signonFrame == [ScreenName |-> <<userName>>, ClientIdentity |-> Absent,
                        PasswordHash |-> Absent, RoastedPassword |-> Absent,
                        RoastedTOCPassword |-> h.bytes]
        r == login(signonFrame, fault)
    IN  IF r.err
        THEN SignedOn(FALSE, 0, <<cmdInternalSvcErr>>, r.users, store, r.calls, r.block)
        ELSE IF HasTag(r.block, "ErrorSubcode")
        THEN SignedOn(FALSE, 0, <<(<<"ERROR", "980">>)>>, r.users, store, r.calls, r.block)
        ELSE IF ~HasTag(r.block, "AuthorizationCookie")
        THEN SignedOn(FALSE, 0, <<cmdInternalSvcErr>>, r.users, store, r.calls, r.block)
        ELSE
    LET b == RegisterBOSSessionWith(r.users, r.block.AuthorizationCookie,
                 IF Calls(r.calls, fault) THEN "none" ELSE fault)
        calls == r.calls \o b.calls
    IN  IF b.err
        THEN SignedOn(FALSE, 0, <<cmdInternalSvcErr>>, r.users, b.store, calls, r.block)
        ELSE
    LET st == [b.store EXCEPT ![b.sess].caps = {"capChat"}]
    IN  IF fault = "RegisterBuddyList"
        THEN SignedOn(FALSE, 0, <<cmdInternalSvcErr>>, r.users, st,
                      Append(calls, "RegisterBuddyList"), r.block)
        ELSE IF fault = "TOCConfigStore.User"
        THEN SignedOn(FALSE, 0, <<cmdInternalSvcErr>>, r.users, st,
                      calls \o <<"RegisterBuddyList", "TOCConfigStore.User">>, r.block)
        ELSE SignedOn(FALSE, b.sess, <<(<<"SIGN_ON", "TOC1.0">>),
                        (<<"CONFIG", TOCConfig(IdentScreenName(st[b.sess].ScreenName))>>)>>,
                      r.users, st,
                      calls \o <<"RegisterBuddyList", "TOCConfigStore.User">>, r.block)

\* the toc_signon lines of the model: user names and passwords of every
\* shape, a line short of an argument, a line of another command
TOCPasswords ==
    {<<>>, <<"0">>, <<"0", "x">>, <<"0", "x", "2">>, <<"0", "x", "z", "z">>,
     <<"0", "x", "4", "4">>, <<"0", "x">> \o HexOfPw1}

SignonLines ==
    {<<"toc_signon", "host", "5190", u, p>> : u \in {"Alice", "Bob", "x!"},
                                              p \in TOCPasswords}
    \cup {<<"toc_signon", "host", "5190", "Alice">>,
          <<"toc_signin", "host", "5190", "Alice", <<"0", "x">> \o HexOfPw1>>}

SignonFaults ==
    {"none", "User", "newUserFn", "InsertUser", "Issue", "ConfirmStatusByName",
     "RegisterBuddyList", "TOCConfigStore.User"}

\* OSCARProxy.Signon on a new connection, for a line and a fault of the sets
SignonOf(lines, faults) ==
    \E segs \in lines, csvErr \in BOOLEAN, fault \in faults :
        LET r == SignonResult(segs, csvErr, fault)
        IN  /\ csvErr => fault = "none"
            /\ Reached(fault, r.calls)
            /\ Calls(r.calls, "AddSession") => nextID < MaxSessions
            /\ users' = r.users
            /\ store' = r.store
            /\ nextID' = IF Calls(r.calls, "AddSession") THEN nextID + 1 ELSE nextID
            /\ last' = [NoOp EXCEPT !.op = "Signon", !.in = segs,
                            !.fault = IF csvErr THEN "csv" ELSE fault,
                            !.panic = r.panic, !.sess = r.sess, !.reply = r.reply,
                            !.block = r.block,
                            !.err = (r.sess = 0), !.calls = r.calls]
            /\ UNCHANGED <<DisableAuth, chat, feedbag, goroutines, chatRegistry,
                           broadcast, receivers, pumps, closed, server, conns,
                       tables>>

Signon == SignonOf(SignonLines, SignonFaults)

\* the sign-on of a registered user with the right password
Connect == SignonOf({<<"toc_signon", "host", "5190", "Alice", <<"0", "x">> \o HexOfPw1>>},
                    {"none"})

----------------------------------------------------------------------------
(* toc.ChatRegistry (part_000): the chat rooms of one TOC connection.      *)

\* NewChatRegistry: empty maps, nextID the zero value
NewChatRegistry == [lookup |-> <<>>, sessions |-> <<>>, nextID |-> 0]

\* wire.ICBMRoomInfo
ICBMRoomInfo(exchange, cookie, instance) ==
    [Exchange |-> exchange, Cookie |-> cookie, Instance |-> instance]

\* the result of Add: the ID returned and the registry left
Added(id, reg) == [id |-> id, reg |-> reg]

\* an Add that takes the next ID after incrementing
Add_PreIncrement(reg, room) ==
    IF \E chatID \in DOMAIN reg.lookup : reg.lookup[chatID] = room
    THEN Added(CHOOSE chatID \in DOMAIN reg.lookup : reg.lookup[chatID] = room, reg)
    ELSE Added(reg.nextID + 1,
               [reg EXCEPT !.lookup = [i \in DOMAIN reg.lookup \cup {reg.nextID + 1} |->
                                          IF i = reg.nextID + 1 THEN room
                                          ELSE reg.lookup[i]],
                           !.nextID = reg.nextID + 1])

\* an Add that never looks for the room
Add_AlwaysNew(reg, room) ==
    Added(reg.nextID,
          [reg EXCEPT !.lookup = [i \in DOMAIN reg.lookup \cup {reg.nextID} |->
                                     IF i = reg.nextID THEN room ELSE reg.lookup[i]],
                      !.nextID = reg.nextID + 1])

\* ChatRegistry.Add, the whole of it under c.m.Lock
Add(reg, room) ==
    IF \E chatID \in DOMAIN reg.lookup : reg.lookup[chatID] = room
    THEN Added(CHOOSE chatID \in DOMAIN reg.lookup : reg.lookup[chatID] = room, reg)
    ELSE Added(reg.nextID,
               [reg EXCEPT !.lookup = [i \in DOMAIN reg.lookup \cup {reg.nextID} |->
                                          IF i = reg.nextID THEN room
                                          ELSE reg.lookup[i]],
                           !.nextID = reg.nextID + 1])

\* ChatRegistry.LookupRoom: the zero room and false for an unknown ID
LookupRoom(reg, chatID) ==
    IF chatID \in DOMAIN reg.lookup
    THEN [room |-> reg.lookup[chatID], found |-> TRUE]
    ELSE [room |-> ICBMRoomInfo(0, "", 0), found |-> FALSE]

\* ChatRegistry.RegisterSess: overwrites the session of the chat ID
RegisterSess(reg, chatID, sess) ==
    [reg EXCEPT !.sessions = [i \in DOMAIN reg.sessions \cup {chatID} |->
                                 IF i = chatID THEN sess ELSE reg.sessions[i]]]

\* ChatRegistry.RetrieveSess: 0 models nil
RetrieveSess(reg, chatID) ==
    IF chatID \in DOMAIN reg.sessions THEN reg.sessions[chatID] ELSE 0

\* the rooms of the model
RoomNames == {"lobby", "den"}

Rooms == {ICBMRoomInfo(4, name, 0) : name \in RoomNames}

\* a goroutine of the connection calls Add: the command handlers and the
\* pump of incoming invitations share the registry
CallAdd ==
    \E room \in Rooms :
        LET a == Add(chatRegistry, room)
        IN  /\ chatRegistry' = a.reg
            /\ last' = [NoOp EXCEPT !.op = "ChatRegistry.Add", !.in = <<room>>,
                            !.reply = <<a.id>>,
                            !.known = \E i \in DOMAIN chatRegistry.lookup :
                                          chatRegistry.lookup[i] = room]
            /\ UNCHANGED <<DisableAuth, users, store, nextID, chat, feedbag,
                           goroutines, broadcast, receivers, pumps, closed, server, conns,
                       tables>>

CallLookupRoom ==
    \E chatID \in 0..2 :
        LET l == LookupRoom(chatRegistry, chatID)
        IN  /\ last' = [NoOp EXCEPT !.op = "ChatRegistry.LookupRoom",
                            !.in = <<chatID>>, !.reply = <<l.room>>,
                            !.known = l.found]
            /\ UNCHANGED <<DisableAuth, users, store, nextID, chat, feedbag,
                           goroutines, chatRegistry, broadcast, receivers, pumps, closed, server, conns,
                       tables>>

----------------------------------------------------------------------------
(* The TOC command handlers (part_000) behind RecvClientCmd.               *)

\* what a chat handler returns: the chat ID and the reply line; the chat
\* session registry and the ChatRegistry it leaves; the calls it made
ChatReply(chatID, msg, ch, reg, calls) ==
    [chatID |-> chatID, msg |-> msg, chat |-> ch, reg |-> reg, calls |-> calls]

\* ChatNavService.CreateRoom: the cookie of the room of that name
RoomCookie(exchange, roomName) == roomName

\* OServiceService.ServiceRequest for the chat food group: the login cookie
\* of the user for the room
ServiceRequest(me, cookie) == Issue(MarshalChatCookie(cookie, store[me].ScreenName))

\* the tail ChatJoin and ChatAccept share: register the chat session under
\* the chat ID, then tell the chat service that the client is online
JoinRoom(me, chatID, reg, cookie, roomName, fault, calls) ==
    LET loginCookie == IF fault = "Crack"
                       THEN [mac |-> "forged",
                             payload |-> MarshalChatCookie(cookie, store[me].ScreenName)]
                       ELSE ServiceRequest(me, cookie)
        c == RegisterChatSessionResult(loginCookie)
        calls2 == calls \o <<"ServiceRequest">> \o c.calls
    IN  IF fault = "ServiceRequest"
        THEN ChatReply(0, cmdInternalSvcErr, chat, chatRegistry,
                       Append(calls, "ServiceRequest"))
        ELSE IF c.err
        THEN ChatReply(0, cmdInternalSvcErr, chat, chatRegistry, calls2)
        ELSE IF fault = "ClientOnline"
        THEN ChatReply(0, cmdInternalSvcErr, c.chat, RegisterSess(reg, chatID, c.sess),
                       Append(calls2, "ClientOnline"))
        ELSE ChatReply(chatID, <<"CHAT_JOIN", chatID, roomName>>, c.chat,
                       RegisterSess(reg, chatID, c.sess), Append(calls2, "ClientOnline"))

\* OSCARProxy.ChatJoin
ChatJoin(me, segs, csvErr, fault) ==
    LET p == parseArgs(segs, csvErr, "toc_chat_join", 2)
    IN  IF p.err
        THEN ChatReply(0, cmdInternalSvcErr, chat, chatRegistry, <<>>)
        ELSE IF ~Atoi(p.args[1]).ok
        THEN ChatReply(0, cmdInternalSvcErr, chat, chatRegistry, <<>>)
        ELSE IF fault = "CreateRoom"
        THEN ChatReply(0, cmdInternalSvcErr, chat, chatRegistry, <<"CreateRoom">>)
        ELSE
    LET exchange == Atoi(p.args[1]).n
        roomName == p.args[2]
        cookie   == RoomCookie(exchange, roomName)
        a        == Add(chatRegistry, ICBMRoomInfo(exchange, cookie, 0))
        j        == JoinRoom(me, a.id, a.reg, cookie, roomName, fault, <<"CreateRoom">>)
    IN  j

\* OSCARProxy.ChatAccept
ChatAccept(me, segs, csvErr, fault) ==
    LET p == parseArgs(segs, csvErr, "toc_chat_accept", 1)
    IN  IF p.err
        THEN ChatReply(0, cmdInternalSvcErr, chat, chatRegistry, <<>>)
        ELSE IF ~Atoi(p.args[1]).ok
        THEN ChatReply(0, cmdInternalSvcErr, chat, chatRegistry, <<>>)
        ELSE
    LET chatID   == Atoi(p.args[1]).n
        chatInfo == LookupRoom(chatRegistry, chatID)
    IN  IF ~chatInfo.found
        THEN ChatReply(0, cmdInternalSvcErr, chat, chatRegistry, <<>>)
        ELSE IF fault = "RequestRoomInfo"
        THEN ChatReply(0, cmdInternalSvcErr, chat, chatRegistry, <<"RequestRoomInfo">>)
        ELSE JoinRoom(me, chatID, chatRegistry, chatInfo.room.Cookie,
                      chatInfo.room.Cookie, fault, <<"RequestRoomInfo">>)

\* OSCARProxy.ChatLeave: the session of the chat ID signs out of the room
ChatLeave(segs, csvErr) ==
    LET p == parseArgs(segs, csvErr, "toc_chat_leave", 1)
    IN  IF p.err
        THEN ChatReply(0, cmdInternalSvcErr, chat, chatRegistry, <<>>)
        ELSE IF ~Atoi(p.args[1]).ok
        THEN ChatReply(0, cmdInternalSvcErr, chat, chatRegistry, <<>>)
        ELSE
    LET chatID == Atoi(p.args[1]).n
        me     == RetrieveSess(chatRegistry, chatID)
    IN  IF me = 0
        THEN ChatReply(0, cmdInternalSvcErr, chat, chatRegistry, <<>>)
        ELSE ChatReply(chatID, <<"CHAT_LEFT", chatID>>,
                       [i \in DOMAIN chat \ {me} |-> chat[i]], chatRegistry,
                       <<"alertUserLeft", "RemoveSession", "Close">>)

\* the commands RecvClientCmd hands to a handler that works on services
\* outside this model
ServiceCmds ==
    {"toc_send_im", "toc_init_done", "toc_add_buddy", "toc_remove_buddy",
     "toc_add_permit", "toc_add_deny", "toc_set_away", "toc_set_caps", "toc_evil",
     "toc_get_info", "toc_chat_send", "toc_set_info", "toc_set_dir", "toc_set_idle",
     "toc_set_config", "toc_chat_invite", "toc_dir_search", "toc_get_dir"}

\* the reply of such a handler: the internal error, or its success line
ServiceReply(cmd, internalErr) ==
    IF internalErr THEN cmdInternalSvcErr
    ELSE CASE cmd = "toc_get_info"   -> <<"GOTO_URL", "profile">>
           [] cmd = "toc_dir_search" -> <<"GOTO_URL", "search results">>
           [] cmd = "toc_get_dir"    -> <<"GOTO_URL", "directory info">>
           [] cmd = "toc_chat_send"  -> <<"CHAT_IN">>
           [] OTHER                  -> NoReply

\* what RecvClientCmd returns, the registries it leaves, whether it started
\* the pump of the chat room with doAsync
Received(reply, ok, ch, reg, async, calls) ==
    [reply |-> reply, ok |-> ok, chat |-> ch, reg |-> reg, async |-> async,
     calls |-> calls]

\* OSCARProxy.RecvClientCmd: the switch on the command name
RecvClientCmdResult(me, segs, csvErr, fault) ==
    LET cmd == segs[1]
    IN  IF cmd \in {"toc_chat_join", "toc_chat_accept"}
        THEN LET r == IF cmd = "toc_chat_join"
                      THEN ChatJoin(me, segs, csvErr, fault)
                      ELSE ChatAccept(me, segs, csvErr, fault)
             IN  IF r.msg = cmdInternalSvcErr
                 THEN Received(NoReply, FALSE, r.chat, r.reg, FALSE, r.calls)
                 ELSE Received(r.msg, TRUE, r.chat, r.reg, TRUE, r.calls)
        ELSE IF cmd = "toc_chat_leave"
        THEN LET r == ChatLeave(segs, csvErr)
             IN  Received(r.msg, TRUE, r.chat, r.reg, FALSE, r.calls)
        ELSE IF cmd \in ServiceCmds
        THEN Received(ServiceReply(cmd, csvErr \/ fault = "service"), TRUE, chat,
                      chatRegistry, FALSE,
                      IF csvErr THEN <<>> ELSE <<"service">>)
        ELSE Received(NoReply, TRUE, chat, chatRegistry, FALSE, <<>>)

\* the command lines of the model
ClientLines ==
    {<<"toc_chat_join", "4", name>> : name \in RoomNames}
    \cup {<<"toc_chat_join", "x", "lobby">>, <<"toc_chat_join", "4">>}
    \cup {<<"toc_chat_accept", id>> : id \in {"0", "1", "x"}}
    \cup {<<"toc_chat_leave", id>> : id \in {"0", "1", "x"}}
    \cup {<<cmd>> : cmd \in ServiceCmds}
    \cup {<<"toc_bogus">>}

ClientFaults ==
    {"none", "CreateRoom", "RequestRoomInfo", "ServiceRequest", "Crack",
     "ClientOnline", "service"}

\* a RecvChat pump that doAsync has started for the chat ID; joined is the
\* chat session the join registered, sess the one the pump retrieved
Pump(chatID, joined) ==
    [chatID |-> chatID, joined |-> joined, pc |-> "spawned", sess |-> 0]

\* one command of the signed-on TOC connection of session sessBOS, from the
\* lines and faults of the sets, while fewer than maxID sessions were made
RecvClientCmdOf(lines, faults, maxID) ==
    \E sessBOS \in DOMAIN store, segs \in lines, csvErr \in BOOLEAN,
       fault \in faults :
        LET r == RecvClientCmdResult(sessBOS, segs, csvErr, fault)
        IN  /\ "capChat" \in store[sessBOS].caps
            /\ csvErr => fault = "none"
            /\ Reached(fault, r.calls)
            /\ Calls(r.calls, "AddSession") => nextID < maxID
            /\ chat' = r.chat
            /\ chatRegistry' = r.reg
            /\ pumps' = IF r.async
                        THEN Append(pumps, Pump(r.reply[2], RetrieveSess(r.reg, r.reply[2])))
                        ELSE pumps
            /\ closed' = IF Calls(r.calls, "Close")
                         THEN closed \cup {RetrieveSess(chatRegistry, Atoi(segs[2]).n)}
                         ELSE closed
            /\ nextID' = IF Calls(r.calls, "AddSession") THEN nextID + 1 ELSE nextID
            /\ last' = [NoOp EXCEPT !.op = "RecvClientCmd", !.in = segs,
                            !.fault = IF csvErr THEN "csv" ELSE fault,
                            !.sess = sessBOS, !.reply = <<r.reply>>, !.ok = r.ok,
                            !.err = (fault # "none" \/ r.reply = cmdInternalSvcErr
                                     \/ ~r.ok),
                            !.calls = r.calls,
                            !.known = (chatRegistry.lookup # <<>>)]
            /\ UNCHANGED <<DisableAuth, users, store, feedbag, goroutines,
                           broadcast, receivers, server, conns,
                       tables>>

RecvClientCmd == RecvClientCmdOf(ClientLines, ClientFaults, MaxSessions)

\* the chat commands of a connection that may hold two chat sessions
ChatLines ==
    {<<"toc_chat_join", "4", name>> : name \in RoomNames}
    \cup {<<"toc_chat_accept", "0">>, <<"toc_chat_leave", "0">>,
          <<"toc_chat_leave", "1">>}

ChatCmd == RecvClientCmdOf(ChatLines, {"none", "ClientOnline"}, MaxSessions + 1)

\* the commands that add rooms to the ChatRegistry, and one that does not
RoomLines ==
    {<<"toc_chat_join", "4", name>> : name \in RoomNames}
    \cup {<<"toc_chat_accept", "1">>, <<"toc_chat_leave", "0">>}

RoomCmd == RecvClientCmdOf(RoomLines, {"none", "CreateRoom"}, MaxSessions)

\* the connection joins the lobby
JoinCmd == RecvClientCmdOf({<<"toc_chat_join", "4", "lobby">>}, {"none"}, MaxSessions)

\* the goroutine of doAsync begins: it retrieves the session of its chat ID
PumpStart ==
    \E i \in DOMAIN pumps :
        /\ pumps[i].pc = "spawned"
        /\ pumps' = [pumps EXCEPT ![i].pc = "reading",
                                  ![i].sess = RetrieveSess(chatRegistry, pumps[i].chatID)]
        /\ last' = [NoOp EXCEPT !.op = "RecvChat", !.in = <<pumps[i].chatID>>,
                        !.sess = RetrieveSess(chatRegistry, pumps[i].chatID)]
        /\ UNCHANGED <<DisableAuth, users, store, nextID, chat, feedbag, goroutines,
                       chatRegistry, broadcast, receivers, closed, server, conns,
                       tables>>

\* RecvChat returns once the session it reads is closed
PumpStop ==
    \E i \in DOMAIN pumps :
        /\ pumps[i].pc = "reading"
        /\ pumps[i].sess \in closed
        /\ pumps' = [pumps EXCEPT ![i].pc = "stopped"]
        /\ last' = [NoOp EXCEPT !.op = "RecvChat returns", !.in = <<pumps[i].chatID>>,
                        !.sess = pumps[i].sess]
        /\ UNCHANGED <<DisableAuth, users, store, nextID, chat, feedbag, goroutines,
                       chatRegistry, broadcast, receivers, closed, server, conns,
                       tables>>

\* what ChatService.ChannelMsgToHost gives back: an error, no reply, a SNAC
\* of another type, or a ChatChannelMsgToClient whose TLVs may be missing
\* or not decodable
Reflection(kind, hasMsgInfo, textOK, text, hasSender, senderOK, sender) ==
    [kind |-> kind, hasMsgInfo |-> hasMsgInfo, textOK |-> textOK, text |-> text,
     hasSender |-> hasSender, senderOK |-> senderOK, sender |-> sender]

ChatTexts == {"hello", "bye"}

Reflections ==
    {Reflection(kind, TRUE, TRUE, "", TRUE, TRUE, "") :
        kind \in {"error", "nil", "ChatChannelMsgToHost"}}
    \cup {Reflection("ChatChannelMsgToClient", TRUE, TRUE, text, TRUE, TRUE, sender) :
            text \in ChatTexts, sender \in {"Alice", "Bob"}}
    \cup {Reflection("ChatChannelMsgToClient", m, t, "hello", h, o, "Alice") :
            m, t, h, o \in BOOLEAN}

\* the ChatChannelMsgToHost SNAC ChatSend builds for the session
MsgToHost(me, msg) == [reflect |-> 1, sender |-> me, text |-> msg]

\* what ChatSend returns, and the request it made of the chat service
ChatSent(msg, request) == [msg |-> msg, request |-> request]

\* a ChatSend that answers with the text the client sent
ChatSend_LocalEcho(segs, csvErr, reflection) ==
    LET p == parseArgs(segs, csvErr, "toc_chat_send", 2)
    IN  IF p.err \/ ~Atoi(p.args[1]).ok
        THEN ChatSent(cmdInternalSvcErr, <<>>)
        ELSE IF RetrieveSess(chatRegistry, Atoi(p.args[1]).n) = 0
        THEN ChatSent(cmdInternalSvcErr, <<>>)
        ELSE ChatSent(<<"CHAT_IN", Atoi(p.args[1]).n, reflection.sender, "F", p.args[2]>>,
                      <<MsgToHost(RetrieveSess(chatRegistry, Atoi(p.args[1]).n), p.args[2])>>)

\* OSCARProxy.ChatSend
ChatSend(segs, csvErr, reflection) ==
    LET p == parseArgs(segs, csvErr, "toc_chat_send", 2)
    IN  IF p.err
        THEN ChatSent(cmdInternalSvcErr, <<>>)
        ELSE IF ~Atoi(p.args[1]).ok
        THEN ChatSent(cmdInternalSvcErr, <<>>)
        ELSE
    LET chatID  == Atoi(p.args[1]).n
        me      == RetrieveSess(chatRegistry, chatID)
        request == <<MsgToHost(me, p.args[2])>>
    IN  IF me = 0
        THEN ChatSent(cmdInternalSvcErr, <<>>)
        ELSE IF reflection.kind # "ChatChannelMsgToClient"
        THEN ChatSent(cmdInternalSvcErr, request)
        ELSE IF ~reflection.hasMsgInfo \/ ~reflection.textOK
        THEN ChatSent(cmdInternalSvcErr, request)
        ELSE IF ~reflection.hasSender \/ ~reflection.senderOK
        THEN ChatSent(cmdInternalSvcErr, request)
        ELSE ChatSent(<<"CHAT_IN", chatID, reflection.sender, "F", reflection.text>>,
                      request)

ChatSendLines ==
    {<<"toc_chat_send", "0", text>> : text \in ChatTexts}
    \cup {<<"toc_chat_send", "1", "hello">>, <<"toc_chat_send", "x", "hello">>,
          <<"toc_chat_send", "0">>}

\* RecvClientCmd for toc_chat_send: the reply of ChatSend, and true
ChatSendCmd ==
    \E sessBOS \in DOMAIN store, segs \in ChatSendLines, csvErr \in BOOLEAN,
       reflection \in Reflections :
        LET r == ChatSend(segs, csvErr, reflection)
        IN  /\ "capChat" \in store[sessBOS].caps
            /\ csvErr => reflection.kind = "nil"
            /\ last' = [NoOp EXCEPT !.op = "ChatSend", !.in = segs,
                            !.fault = IF csvErr THEN "csv" ELSE "none",
                            !.sess = sessBOS, !.reply = <<r.msg>>,
                            !.err = (r.msg = cmdInternalSvcErr),
                            !.request = r.request,
                            !.reflection = <<reflection>>]
            /\ UNCHANGED <<DisableAuth, users, store, nextID, chat, feedbag, goroutines,
                           chatRegistry, broadcast, receivers, pumps, closed, server, conns,
                       tables>>

----------------------------------------------------------------------------
(* The tokenizer of the TOC commands: parseArgs over the bytes of a line.  *)
(* A line is a sequence of bytes; the command name counts as one byte.     *)

Space == " "
Quote == "\""

\* bytes.TrimLeftFunc(line, unicode.IsSpace)
RECURSIVE TrimLeft(_)
TrimLeft(line) ==
    IF line # <<>> /\ Head(line) = Space THEN TrimLeft(Tail(line)) ELSE line

RECURSIVE TrimRight(_)
TrimRight(line) ==
    IF line # <<>> /\ line[Len(line)] = Space
    THEN TrimRight(SubSeq(line, 1, Len(line) - 1))
    ELSE line

\* strings.TrimSpace, bytes.TrimSpace
TrimSpace(line) == TrimRight(TrimLeft(line))

\* bytes.IndexByte: 0 when the byte is not there
IndexByte(line, c) ==
    IF \E i \in DOMAIN line : line[i] = c
    THEN CHOOSE i \in DOMAIN line : line[i] = c /\ \A j \in 1..(i - 1) : line[j] # c
    ELSE 0

\* csv.Reader.readRecord with Comma ' ', LazyQuotes and TrimLeadingSpace: the
\* fields of the rest of the line, from the start of a field
RECURSIVE ReadFields(_)
RECURSIVE ReadQuoted(_, _)
ReadFields(rest) ==
    LET line == TrimLeft(rest)
    IN  IF line = <<>> \/ Head(line) # Quote
        THEN LET i == IndexByte(line, Space)
             IN  IF i = 0 THEN <<line>>
                 ELSE <<SubSeq(line, 1, i - 1)>>
                      \o ReadFields(SubSeq(line, i + 1, Len(line)))
        ELSE ReadQuoted(Tail(line), <<>>)

\* inside a quoted field, field holding what was read of it
ReadQuoted(line, field) ==
    LET i == IndexByte(line, Quote)
    IN  IF i = 0 THEN <<field \o line>>
        ELSE LET read  == field \o SubSeq(line, 1, i - 1)
                 after == SubSeq(line, i + 1, Len(line))
             IN  IF after = <<>> THEN <<read>>
                 ELSE IF Head(after) = Quote
                 THEN ReadQuoted(Tail(after), Append(read, Quote))
                 ELSE IF Head(after) = Space
                 THEN <<read>> \o ReadFields(Tail(after))
                 ELSE ReadQuoted(after, Append(read, Quote))

\* csv.Reader.Read of the one line: io.EOF when there is none
csvRead(payload) ==
    IF payload = <<>> THEN [err |-> TRUE, segs |-> <<>>]
    ELSE [err |-> FALSE, segs |-> ReadFields(payload)]

\* parseArgs on the bytes of the line: nargs positional arguments
parseBytes(payload, cmd, nargs) ==
    LET r == csvRead(payload)
    IN  IF r.err THEN [err |-> TRUE, args |-> <<>>, varArgs |-> <<>>]
        ELSE IF r.segs[1] # <<cmd>> \/ Len(r.segs) - 1 < nargs
        THEN [err |-> TRUE, args |-> <<>>, varArgs |-> <<>>]
        ELSE [err |-> FALSE,
              args |-> [i \in 1..nargs |-> TrimSpace(r.segs[i + 1])],
              varArgs |-> SubSeq(r.segs, nargs + 2, Len(r.segs))]

\* a SetConfig that leaves the braces as they are
ReplaceBraces_None(cmd) == cmd

\* SetConfig: every '{' and '}' of the line becomes '"'
ReplaceBraces(cmd) ==
    [i \in DOMAIN cmd |-> IF cmd[i] \in {"{", "}"} THEN Quote ELSE cmd[i]]

\* the positional arguments the handler of the command asks parseArgs for
Positional(cmd) ==
    CASE cmd = "toc_set_config" -> 1
      [] cmd = "toc_set_info"   -> 1
      [] cmd = "toc_send_im"    -> 2

\* the arguments the handler of the command gets from the line
HandlerArgs(cmd, payload) ==
    IF cmd = "toc_set_config"
    THEN parseBytes(TrimSpace(ReplaceBraces(payload)), cmd, Positional(cmd))
    ELSE parseBytes(payload, cmd, Positional(cmd))

ParsedCmds == {"toc_set_config", "toc_set_info", "toc_send_im"}

\* the bytes after the command name, and their number at most
MaxBody == 5

BodyBytes == {"m", Space, Quote, "{", "}"}

\* the connection begins to read a line: its command name
ReadCmd ==
    \E name \in ParsedCmds :
        /\ last' = [NoOp EXCEPT !.op = "readLine", !.in = <<name>>]
        /\ UNCHANGED <<DisableAuth, users, store, nextID, chat, feedbag, goroutines,
                       chatRegistry, broadcast, receivers, pumps, closed, server, conns,
                       tables>>

\* the next byte of the line
ReadByte ==
    \E c \in BodyBytes :
        /\ last.op = "readLine"
        /\ Len(last.in) <= MaxBody
        /\ last' = [last EXCEPT !.in = Append(@, c)]
        /\ UNCHANGED <<DisableAuth, users, store, nextID, chat, feedbag, goroutines,
                       chatRegistry, broadcast, receivers, pumps, closed, server, conns,
                       tables>>

\* the line is complete: the handler of its command reads its arguments
ParseLine ==
    /\ last.op = "readLine"
    /\ LET cmd == last.in[1]
           r   == HandlerArgs(cmd, last.in)
       IN  last' = [NoOp EXCEPT !.op = "parseArgs", !.in = last.in, !.sub = cmd,
                        !.err = r.err, !.reply = <<r.args, r.varArgs>>]
    /\ UNCHANGED <<DisableAuth, users, store, nextID, chat, feedbag, goroutines,
                   chatRegistry, broadcast, receivers, pumps, closed, server, conns,
                       tables>>

----------------------------------------------------------------------------
(* OSCARProxy.SetConfig after parseArgs.  info is the config text: its     *)
(* lines, each the sequence of its words and of the spaces between them.   *)

\* strings.Split(item, " "): the parts between the spaces, each the words
\* it is made of (none for an empty part)
RECURSIVE Split(_)
Split(item) ==
    IF \A k \in DOMAIN item : item[k] # Space
    THEN <<item>>
    ELSE LET k == CHOOSE i \in DOMAIN item :
                      item[i] = Space /\ \A j \in 1..(i - 1) : item[j] # Space
         IN  <<SubSeq(item, 1, k - 1)>> \o Split(SubSeq(item, k + 1, Len(item)))

\* the items SetConfig keeps: those of two parts, as [2]string
RECURSIVE ConfigItems(_)
ConfigItems(config) ==
    IF config = <<>>
    THEN <<>>
    ELSE LET parts == Split(Head(config))
         IN  (IF Len(parts) # 2 THEN <<>> ELSE <<parts>>) \o ConfigItems(Tail(config))

\* the values of the kept items of one type, in their order
RECURSIVE ItemsOf(_, _)
ItemsOf(cfg, type) ==
    IF cfg = <<>>
    THEN <<>>
    ELSE (IF Head(cfg)[1] = <<type>> THEN <<Head(cfg)[2]>> ELSE <<>>)
         \o ItemsOf(Tail(cfg), type)

\* the loop over the m items: the mode of the last one, "invalid" as soon
\* as one has a value that is no mode
RECURSIVE PDMode(_, _)
PDMode(modes, mode) ==
    IF modes = <<>>
    THEN mode
    ELSE CASE Head(modes) = <<"1">> -> PDMode(Tail(modes), "FeedbagPDModePermitAll")
           [] Head(modes) = <<"2">> -> PDMode(Tail(modes), "FeedbagPDModeDenyAll")
           [] Head(modes) = <<"3">> -> PDMode(Tail(modes), "FeedbagPDModePermitSome")
           [] Head(modes) = <<"4">> -> PDMode(Tail(modes), "FeedbagPDModeDenySome")
           [] OTHER -> "invalid"

\* a call SetConfig makes of a service, and what it passes
ServiceCall(name, arg) == [name |-> name, arg |-> arg]

\* the permit/deny call of the mode
PermitDenyCall(mode, me, cfg) ==
    CASE mode = "FeedbagPDModePermitAll" ->
            ServiceCall("AddDenyListEntries", << <<me>> >>)
      [] mode = "FeedbagPDModeDenyAll" ->
            ServiceCall("AddPermListEntries", << <<me>> >>)
      [] mode = "FeedbagPDModePermitSome" ->
            ServiceCall("AddPermListEntries", ItemsOf(cfg, "p"))
      [] mode = "FeedbagPDModeDenySome" ->
            ServiceCall("AddDenyListEntries", ItemsOf(cfg, "d"))

\* what SetConfig returns and the calls it made, in their order
ConfigSet(reply, calls) == [reply |-> reply, calls |-> calls]

\* a SetConfig that saves the config before it adds the buddies
SetConfig_SavesFirst(me, info, fault) ==
    LET cfg  == ConfigItems(info)
        mode == PDMode(ItemsOf(cfg, "m"), "FeedbagPDModePermitAll")
        pd   == PermitDenyCall(mode, me, cfg)
        add  == ServiceCall("AddBuddies", ItemsOf(cfg, "b"))
        save == ServiceCall("SetTOCConfig", info)
    IN  IF mode = "invalid"
        THEN ConfigSet(cmdInternalSvcErr, <<>>)
        ELSE IF fault = pd.name
        THEN ConfigSet(cmdInternalSvcErr, <<pd>>)
        ELSE IF fault = "SetTOCConfig"
        THEN ConfigSet(cmdInternalSvcErr, <<pd, save>>)
        ELSE IF fault = "AddBuddies"
        THEN ConfigSet(cmdInternalSvcErr, <<pd, save, add>>)
        ELSE ConfigSet(NoReply, <<pd, save, add>>)

\* OSCARProxy.SetConfig from the config text on; fault is the call that
\* returns an error
SetConfig(me, info, fault) ==
    LET cfg  == ConfigItems(info)
        mode == PDMode(ItemsOf(cfg, "m"), "FeedbagPDModePermitAll")
        pd   == PermitDenyCall(mode, me, cfg)
        add  == ServiceCall("AddBuddies", ItemsOf(cfg, "b"))
        save == ServiceCall("SetTOCConfig", info)
    IN  IF mode = "invalid"
        THEN ConfigSet(cmdInternalSvcErr, <<>>)
        ELSE IF fault = pd.name
        THEN ConfigSet(cmdInternalSvcErr, <<pd>>)
        ELSE IF fault = "AddBuddies"
        THEN ConfigSet(cmdInternalSvcErr, <<pd, add>>)
        ELSE IF fault = "SetTOCConfig"
        THEN ConfigSet(cmdInternalSvcErr, <<pd, add, save>>)
        ELSE ConfigSet(NoReply, <<pd, add, save>>)

\* the lines of the config texts: items of every type, modes that are none,
\* an empty line, and items with a space in or after the value
ConfigLines ==
    {<<"m", Space, v>> : v \in {"1", "2", "3", "4", "9"}}
    \cup {<<t, Space, "bob">> : t \in {"p", "d", "b"}}
    \cup {<<"g", Space, "Buddies">>, <<>>,
          <<"p", Space, "john", Space, "doe">>, <<"b", Space, "john", Space, "doe">>,
          <<"m", Space, "4", Space>>}

\* the config texts of at most MaxItems lines
MaxItems == 2

\* the connection begins to read a toc_set_config line
ReadConfig ==
    /\ store # <<>>
    /\ last' = [NoOp EXCEPT !.op = "readConfig"]
    /\ UNCHANGED <<DisableAuth, users, store, nextID, chat, feedbag, goroutines,
                   chatRegistry, broadcast, receivers, pumps, closed, server, conns,
                   tables>>

\* the next line of the config text
ReadConfigItem ==
    \E item \in ConfigLines :
        /\ last.op = "readConfig"
        /\ Len(last.in) < MaxItems
        /\ last' = [last EXCEPT !.in = Append(@, item)]
        /\ UNCHANGED <<DisableAuth, users, store, nextID, chat, feedbag, goroutines,
                       chatRegistry, broadcast, receivers, pumps, closed, server, conns,
                       tables>>

SetConfigFaults ==
    {"none", "AddDenyListEntries", "AddPermListEntries", "AddBuddies", "SetTOCConfig"}

\* toc_set_config on the signed-on connection of session sessBOS
SetConfigCmd ==
    \E sessBOS \in DOMAIN store, fault \in SetConfigFaults :
        LET info == last.in
            r    == SetConfig(IdentScreenName(store[sessBOS].ScreenName), info, fault)
        IN  /\ last.op = "readConfig"
            /\ fault = "none" \/ \E i \in DOMAIN r.calls : r.calls[i].name = fault
            /\ last' = [NoOp EXCEPT !.op = "SetConfig", !.in = info, !.fault = fault,
                            !.sess = sessBOS, !.reply = <<r.reply>>,
                            !.err = (r.reply = cmdInternalSvcErr),
                            !.calls = r.calls]
            /\ UNCHANGED <<DisableAuth, users, store, nextID, chat, feedbag, goroutines,
                           chatRegistry, broadcast, receivers, pumps, closed, server, conns,
                           tables>>

----------------------------------------------------------------------------
(* AuthServer (feedbag_store.go): Start, its accept loop, and the handler   *)
(* of one connection.  io is what passed over the connection, in order.    *)

\* the connections one run accepts at most
MaxConns == 2

\* a connection Accept returned, before its handler ran
Accepted == [pc |-> "accepted", io |-> <<>>, frame |-> <<>>, flow |-> "none",
             err |-> FALSE]

\* the handler leaves handleNewConnection: the deferred rwc.Close runs
Return(c, err) == [c EXCEPT !.pc = "closed", !.io = Append(@, "close"), !.err = err]

\* what the server did on conn i
ConnRecord(op, i) == [NoOp EXCEPT !.op = op, !.sess = i]

\* AuthServer.Start up to the accept loop: net.Listen, and the goroutine
\* that waits for the context
StartListen ==
    \E listenErr \in BOOLEAN :
        /\ server.pc = "none"
        /\ server' = IF listenErr
                     THEN [server EXCEPT !.pc = "returned"]
                     ELSE [server EXCEPT !.pc = "accept", !.listener = "open"]
        /\ last' = [NoOp EXCEPT !.op = "Start", !.err = listenErr]
        /\ UNCHANGED <<DisableAuth, users, store, nextID, chat, feedbag, goroutines,
                       chatRegistry, broadcast, receivers, pumps, closed, conns,
                       tables>>

\* the root context is cancelled
Cancel ==
    /\ server.pc # "none"
    /\ server.ctx = "live"
    /\ server' = [server EXCEPT !.ctx = "cancelled"]
    /\ last' = [NoOp EXCEPT !.op = "cancel"]
    /\ UNCHANGED <<DisableAuth, users, store, nextID, chat, feedbag, goroutines,
                   chatRegistry, broadcast, receivers, pumps, closed, conns,
                       tables>>

\* a goroutine that sees the context done and leaves the listener open
CloseListener_Forgets ==
    /\ server.ctx = "cancelled"
    /\ server.listener = "open"
    /\ last' = [NoOp EXCEPT !.op = "listener.Close"]
    /\ UNCHANGED <<DisableAuth, users, store, nextID, chat, feedbag, goroutines,
                   chatRegistry, broadcast, receivers, pumps, closed, server, conns,
                       tables>>

\* the goroutine of Start: <-ctx.Done(), then listener.Close()
CloseListener ==
    /\ server.ctx = "cancelled"
    /\ server.listener = "open"
    /\ server' = [server EXCEPT !.listener = "closed"]
    /\ last' = [NoOp EXCEPT !.op = "listener.Close"]
    /\ UNCHANGED <<DisableAuth, users, store, nextID, chat, feedbag, goroutines,
                   chatRegistry, broadcast, receivers, pumps, closed, conns,
                       tables>>

\* listener.Accept returns a connection; its handler is started
Accept ==
    /\ server.pc = "accept"
    /\ server.listener = "open"
    /\ Len(conns) < MaxConns
    /\ conns' = Append(conns, Accepted)
    /\ last' = ConnRecord("Accept", Len(conns) + 1)
    /\ UNCHANGED <<DisableAuth, users, store, nextID, chat, feedbag, goroutines,
                   chatRegistry, broadcast, receivers, pumps, closed, server,
                       tables>>

\* an accept loop that ends at the first error of Accept
AcceptFails_Breaks ==
    /\ server.pc = "accept"
    /\ server.listener = "open"
    /\ server' = [server EXCEPT !.pc = "waiting"]
    /\ last' = [NoOp EXCEPT !.op = "Accept", !.err = TRUE]
    /\ UNCHANGED <<DisableAuth, users, store, nextID, chat, feedbag, goroutines,
                   chatRegistry, broadcast, receivers, pumps, closed, conns, tables>>

\* listener.Accept fails on the open listener: logged, the loop goes on
AcceptFails ==
    /\ server.pc = "accept"
    /\ server.listener = "open"
    /\ last' = [NoOp EXCEPT !.op = "Accept", !.err = TRUE]
    /\ UNCHANGED <<DisableAuth, users, store, nextID, chat, feedbag, goroutines,
                   chatRegistry, broadcast, receivers, pumps, closed, server, conns,
                       tables>>

\* listener.Accept returns net.ErrClosed: the loop ends
AcceptClosed ==
    /\ server.pc = "accept"
    /\ server.listener = "closed"
    /\ server' = [server EXCEPT !.pc = "waiting"]
    /\ last' = [NoOp EXCEPT !.op = "Accept", !.err = TRUE, !.fault = "net.ErrClosed"]
    /\ UNCHANGED <<DisableAuth, users, store, nextID, chat, feedbag, goroutines,
                   chatRegistry, broadcast, receivers, pumps, closed, conns,
                       tables>>

\* waitForShutdown(&wg) and the return of Start: true when every handler is
\* done, false when the grace period runs out first
WaitForShutdown ==
    \E timedOut \in BOOLEAN :
        /\ server.pc = "waiting"
        /\ ~timedOut => \A i \in DOMAIN conns : conns[i].pc = "closed"
        /\ server' = [server EXCEPT !.pc = "returned", !.clean = ~timedOut]
        /\ last' = [NoOp EXCEPT !.op = "waitForShutdown", !.ok = ~timedOut]
        /\ UNCHANGED <<DisableAuth, users, store, nextID, chat, feedbag, goroutines,
                       chatRegistry, broadcast, receivers, pumps, closed, conns,
                       tables>>

\* handleNewConnection, first half: the server's signon frame
SendSignonFrame ==
    \E i \in DOMAIN conns, ioErr \in BOOLEAN :
        /\ conns[i].pc = "accepted"
        /\ conns' = [conns EXCEPT ![i] =
                        IF ioErr THEN Return(@, TRUE)
                        ELSE [@ EXCEPT !.pc = "signon sent",
                                       !.io = Append(@, "send signon")]]
        /\ last' = ConnRecord("SendSignonFrame", i)
        /\ UNCHANGED <<DisableAuth, users, store, nextID, chat, feedbag, goroutines,
                       chatRegistry, broadcast, receivers, pumps, closed, server,
                       tables>>

\* the TLVs of the client's signon frame that matter to the choice of flow
ClientSignonFrames == [ScreenName : BOOLEAN, RoastedPassword : BOOLEAN]

\* the flow were chosen as it once was, by the roasted password TLV
AuthFlow_ByRoastedPassword(frame) == IF frame.RoastedPassword THEN "FLAP" ELSE "BUCP"

\* handleNewConnection: processFLAPAuth for a signon frame that has the
\* screen name TLV, processBUCPAuth for any other
AuthFlow(frame) == IF frame.ScreenName THEN "FLAP" ELSE "BUCP"

\* handleNewConnection, second half: the client's signon frame and the
\* choice of the flow
ReceiveSignonFrame ==
    \E i \in DOMAIN conns, ioErr \in BOOLEAN, frame \in ClientSignonFrames :
        /\ conns[i].pc = "signon sent"
        /\ ioErr => frame = [ScreenName |-> FALSE, RoastedPassword |-> FALSE]
        /\ conns' = [conns EXCEPT ![i] =
                        IF ioErr THEN Return(@, TRUE)
                        ELSE [@ EXCEPT !.pc = AuthFlow(frame),
                                       !.flow = AuthFlow(frame),
                                       !.io = Append(@, "recv signon"),
                                       !.frame = <<frame>>]]
        /\ last' = ConnRecord("ReceiveSignonFrame", i)
        /\ UNCHANGED <<DisableAuth, users, store, nextID, chat, feedbag, goroutines,
                       chatRegistry, broadcast, receivers, pumps, closed, server,
                       tables>>

\* processFLAPAuth: FLAPLogin, then the signoff frame with its TLVs
processFLAPAuth ==
    \E i \in DOMAIN conns, loginErr \in BOOLEAN, ioErr \in BOOLEAN :
        /\ conns[i].pc = "FLAP"
        /\ loginErr => ~ioErr
        /\ conns' = [conns EXCEPT ![i] =
                        IF loginErr \/ ioErr THEN Return(@, TRUE)
                        ELSE Return([@ EXCEPT !.io = Append(@, "send signoff")], FALSE)]
        /\ last' = ConnRecord("processFLAPAuth", i)
        /\ UNCHANGED <<DisableAuth, users, store, nextID, chat, feedbag, goroutines,
                       chatRegistry, broadcast, receivers, pumps, closed, server,
                       tables>>

\* the SNACs BUCPChallenge answers with: the challenge (0x17, 0x07), or the
\* login response (0x17, 0x03) for an account that does not exist
BUCPChallengeResponse == "send 0x17,0x07"
BUCPLoginResponse     == "send 0x17,0x03"

\* the handler went on to the login request whatever it answered
Challenged_ReadsOn(c, outSNAC) ==
    [c EXCEPT !.pc = "challenged", !.io = @ \o <<"recv 0x17,0x06", outSNAC>>]

\* processBUCPAuth once outSNAC is sent: return nil for the login response
\* (the account does not exist), go on to the login request otherwise
Challenged(c, outSNAC) ==
    IF outSNAC = BUCPLoginResponse
    THEN Return([c EXCEPT !.io = @ \o <<"recv 0x17,0x06", outSNAC>>], FALSE)
    ELSE [c EXCEPT !.pc = "challenged", !.io = @ \o <<"recv 0x17,0x06", outSNAC>>]

\* processBUCPAuth up to the second ReceiveSNAC: the challenge request, the
\* call of BUCPChallenge and its answer
processBUCPChallenge ==
    \E i \in DOMAIN conns, fails \in {"none", "ReceiveSNAC", "BUCPChallenge", "SendSNAC"},
       outSNAC \in {BUCPChallengeResponse, BUCPLoginResponse} :
        /\ conns[i].pc = "BUCP"
        /\ fails \in {"ReceiveSNAC", "BUCPChallenge"} => outSNAC = BUCPLoginResponse
        /\ conns' = [conns EXCEPT ![i] =
                        CASE fails = "ReceiveSNAC" -> Return(@, TRUE)
                          [] fails = "BUCPChallenge" ->
                               Return([@ EXCEPT !.io = Append(@, "recv 0x17,0x06")], TRUE)
                          [] fails = "SendSNAC" ->
                               Return([@ EXCEPT !.io = Append(@, "recv 0x17,0x06")], TRUE)
                          [] OTHER -> Challenged(@, outSNAC)]
        /\ last' = ConnRecord("processBUCPAuth: challenge", i)
        /\ UNCHANGED <<DisableAuth, users, store, nextID, chat, feedbag, goroutines,
                       chatRegistry, broadcast, receivers, pumps, closed, server,
                       tables>>

\* processBUCPAuth from the second ReceiveSNAC: the login request, the call
\* of BUCPLogin and its answer
processBUCPLogin ==
    \E i \in DOMAIN conns, fails \in {"none", "ReceiveSNAC", "BUCPLogin", "SendSNAC"} :
        /\ conns[i].pc = "challenged"
        /\ conns' = [conns EXCEPT ![i] =
                        CASE fails = "ReceiveSNAC" -> Return(@, TRUE)
                          [] fails \in {"BUCPLogin", "SendSNAC"} ->
                               Return([@ EXCEPT !.io = Append(@, "recv 0x17,0x02")], TRUE)
                          [] OTHER ->
                               Return([@ EXCEPT !.io = @ \o <<"recv 0x17,0x02",
                                                              BUCPLoginResponse>>], FALSE)]
        /\ last' = ConnRecord("processBUCPAuth: login", i)
        /\ UNCHANGED <<DisableAuth, users, store, nextID, chat, feedbag, goroutines,
                       chatRegistry, broadcast, receivers, pumps, closed, server,
                       tables>>

----------------------------------------------------------------------------
(* Specifications *)

InitLogin ==
    /\ DisableAuth \in BOOLEAN
    /\ users = InitialUsers
    /\ store = <<>>
    /\ nextID = 0
    /\ chat = <<>>
    /\ feedbag = {}
    /\ last = NoOp
    /\ goroutines = NoGoroutines
    /\ chatRegistry = NewChatRegistry
    /\ broadcast = NoBroadcast
    /\ receivers = {}
    /\ pumps = <<>>
    /\ closed = {}
    /\ server = NotStarted
    /\ conns = <<>>
    /\ tables = NoRows

NextLogin == BUCPChallenge \/ BUCPLogin(LoginTLVs) \/ FLAPLogin(LoginTLVs)

SpecLogin == InitLogin /\ [][NextLogin]_vars

\* the users of a server whose sessions are studied: two AIM and two ICQ
\* accounts, one of each confirmed
SessionUsers ==
    [ident \in {"alice", "bob", "10001", "10002"} |->
        CASE ident = "alice" -> InitialUsers["alice"]
          [] ident = "10001" -> InitialUsers["10001"]
          [] ident = "bob"   -> NewStubUser("Bob")
          [] OTHER           -> [DisplayScreenName |-> "10002", AuthKey |-> "k3",
                                 Password |-> "pw1", Confirmed |-> TRUE]]

\* the logins of a server whose sessions are studied
SessionLoginTLVs ==
    {tlv \in LoginTLVs :
        /\ tlv.ScreenName \in {<<"Alice">>, <<"10001">>}
        /\ tlv.ClientIdentity # Absent
        /\ tlv.PasswordHash = Absent
        /\ tlv.RoastedTOCPassword = Absent}

InitAuth ==
    /\ DisableAuth = FALSE
    /\ users = SessionUsers
    /\ store = <<>>
    /\ nextID = 0
    /\ chat = <<>>
    /\ feedbag = {}
    /\ last = NoOp
    /\ goroutines = NoGoroutines
    /\ chatRegistry = NewChatRegistry
    /\ broadcast = NoBroadcast
    /\ receivers = {}
    /\ pumps = <<>>
    /\ closed = {}
    /\ server = NotStarted
    /\ conns = <<>>
    /\ tables = NoRows

NextAuth ==
    \/ BUCPLogin(SessionLoginTLVs)
    \/ FLAPLogin(SessionLoginTLVs)
    \/ RegisterBOSSession
    \/ RetrieveBOSSession
    \/ RegisterChatSession
    \/ Signout
    \/ ProxySignout
    \/ SignoutChat

SpecAuth == InitAuth /\ [][NextAuth]_vars

InitPresence ==
    /\ DisableAuth = FALSE
    /\ users = InitialUsers
    /\ store = <<>>
    /\ nextID = 0
    /\ chat = <<>>
    /\ feedbag = {}
    /\ last = NoOp
    /\ goroutines = NoGoroutines
    /\ chatRegistry = NewChatRegistry
    /\ broadcast = NoBroadcast
    /\ receivers = {}
    /\ pumps = <<>>
    /\ closed = {}
    /\ server = NotStarted
    /\ conns = <<>>
    /\ tables = NoRows

NextPresence ==
    \/ CallNewSession
    \/ AssignScreenName
    \/ CallRemove
    \/ CallRetrieveByScreenName
    \/ CallUpsert
    \/ CallDelete
    \/ NotifyArrival
    \/ NotifyDeparture

SpecPresence == InitPresence /\ [][NextPresence]_vars

\* the session manager with empty buddy lists: sessions come, are named,
\* looked up, announced and removed
NextSessions ==
    \/ CallNewSession
    \/ AssignScreenName
    \/ CallRemove
    \/ CallRetrieveByScreenName
    \/ NotifyArrival
    \/ NotifyDeparture

SpecSessions == InitPresence /\ [][NextSessions]_vars

\* one new session shared by the goroutines
InitSetters ==
    /\ DisableAuth = FALSE
    /\ users = InitialUsers
    /\ store = NewSession(<<>>, Shared)
    /\ nextID = Shared
    /\ chat = <<>>
    /\ feedbag = {}
    /\ last = NoOp
    /\ goroutines = NoGoroutines
    /\ chatRegistry = NewChatRegistry
    /\ broadcast = NoBroadcast
    /\ receivers = {}
    /\ pumps = <<>>
    /\ closed = {}
    /\ server = NotStarted
    /\ conns = <<>>
    /\ tables = NoRows

NextSetters ==
    \/ RLock
    \/ LoadWarning
    \/ StoreWarning
    \/ StoreAwayData
    \/ StoreAwayLen
    \/ LoadAwayData
    \/ LoadAwayLen
    \/ RUnlock

SpecSetters == InitSetters /\ [][NextSetters]_vars

\* goroutines that call the methods of the SessionManager concurrently
NextManager ==
    \/ MapRLock
    \/ MapLock
    \/ MapAccess
    \/ MapAccessed
    \/ MapUnlock

SpecManager == InitSetters /\ [][NextManager]_vars

\* two users who have each other on the buddy list
WatchedFeedbag ==
    Upsert(Upsert({}, "Bob", <<[groupID |-> 1, itemID |-> 1, classID |-> 0,
                                name |-> "Alice", attributes |-> <<>>]>>),
           "Alice", <<[groupID |-> 1, itemID |-> 1, classID |-> 0, name |-> "Bob",
                       attributes |-> <<>>]>>)

InitBroadcast ==
    /\ DisableAuth = FALSE
    /\ users = InitialUsers
    /\ store = <<>>
    /\ nextID = 0
    /\ chat = <<>>
    /\ feedbag = WatchedFeedbag
    /\ last = NoOp
    /\ goroutines = NoGoroutines
    /\ chatRegistry = NewChatRegistry
    /\ broadcast = NoBroadcast
    /\ receivers = {}
    /\ pumps = <<>>
    /\ closed = {}
    /\ server = NotStarted
    /\ conns = <<>>
    /\ tables = NoRows

NextBroadcast ==
    \/ CallNewSession
    \/ AssignScreenName
    \/ ReceiverReady
    \/ ReceiverBusy
    \/ NotifyBegin
    \/ NotifySend
    \/ NotifyReturn

SpecBroadcast == InitBroadcast /\ [][NextBroadcast]_vars

\* a TOC server: connections sign on, send commands and sign out; the
\* routers of the OSCAR side take the frames of the native clients
InitHandlers ==
    /\ DisableAuth \in BOOLEAN
    /\ users = InitialUsers
    /\ store = <<>>
    /\ nextID = 0
    /\ chat = <<>>
    /\ feedbag = {}
    /\ last = NoOp
    /\ goroutines = NoGoroutines
    /\ chatRegistry = NewChatRegistry
    /\ broadcast = NoBroadcast
    /\ receivers = {}
    /\ pumps = <<>>
    /\ closed = {}
    /\ server = NotStarted
    /\ conns = <<>>
    /\ tables = NoRows

NextHandlers ==
    \/ RouteBuddy
    \/ RouteChatNav
    \/ Signon

SpecHandlers == InitHandlers /\ [][NextHandlers]_vars

\* one TOC connection and its chat rooms
NextTOC ==
    \/ Connect
    \/ RecvClientCmd
    \/ CallAdd
    \/ CallLookupRoom

SpecTOC == InitHandlers /\ [][NextTOC]_vars

\* one TOC connection and the rooms of its ChatRegistry
NextRooms ==
    \/ Connect
    \/ RoomCmd
    \/ CallAdd
    \/ CallLookupRoom

SpecRooms == InitHandlers /\ [][NextRooms]_vars

\* one TOC connection that sets its config
NextConfig ==
    \/ Connect
    \/ ReadConfig
    \/ ReadConfigItem
    \/ SetConfigCmd

SpecConfig == InitHandlers /\ [][NextConfig]_vars

\* one TOC connection, its chat rooms and their pumps
NextChat ==
    \/ Connect
    \/ ChatCmd
    \/ PumpStart
    \/ PumpStop

SpecChat == InitHandlers /\ [][NextChat]_vars

\* one TOC connection that joins rooms and sends to them
NextSend ==
    \/ Connect
    \/ JoinCmd
    \/ ChatSendCmd

SpecSend == InitHandlers /\ [][NextSend]_vars

\* the feedbag table under Upsert, Delete and Retrieve
NextFeedbag ==
    \/ UpsertItems
    \/ DeleteItems
    \/ CallRetrieve

SpecFeedbag == InitPresence /\ [][NextFeedbag]_vars

\* the user and profile tables under their three operations
NextProfile ==
    \/ CallUpsertUser
    \/ CallUpsertProfile
    \/ CallRetrieveProfile

SpecProfile == InitPresence /\ [][NextProfile]_vars

\* the auth server from its start to its return, and its connections
NextAuthServer ==
    \/ StartListen
    \/ Cancel
    \/ CloseListener
    \/ Accept
    \/ AcceptFails
    \/ AcceptClosed
    \/ WaitForShutdown
    \/ SendSignonFrame
    \/ ReceiveSignonFrame
    \/ processFLAPAuth
    \/ processBUCPChallenge
    \/ processBUCPLogin

SpecAuthServer == InitPresence /\ [][NextAuthServer]_vars

\* the goroutines of Start run when they can; a client need not send
SpecAuthServerLive ==
    /\ SpecAuthServer
    /\ WF_vars(CloseListener)
    /\ WF_vars(AcceptClosed)
    /\ WF_vars(WaitForShutdown)

\* the handlers parse the lines of the clients
NextParse ==
    \/ ReadCmd
    \/ ReadByte
    \/ ParseLine

SpecParse == InitHandlers /\ [][NextParse]_vars

----------------------------------------------------------------------------
(* Claims *)

IsLogin == last.op \in {"BUCPLogin", "FLAPLogin"}

LoginName == last.in.ScreenName[1]

HasCookie == HasTag(last.block, "AuthorizationCookie")

\* Y has X on the buddy list / A has B on the deny list
OnBuddyList(y, x) ==
    \E k \in feedbag : k.ScreenName = y /\ k.classID = 0 /\ k.name = x
Blocks(a, b) ==
    \E k \in feedbag : k.ScreenName = a /\ k.classID = 3 /\ k.name = b

\* C1 (as claimed; refuted): when NotifyArrival runs on X's session, an
\* online Y is sent BuddyArrived for X iff X is on Y's buddy list, X does not
\* block Y and Y does not block X.  (A Session has no invisible flag, so the
\* permit-list condition never applies.)
C1_ArrivalIffBuddyAndUnblocked ==
    (last.op = "NotifyArrival" /\ ~last.err) =>
        \A y \in DOMAIN store :
            LET X == store[last.sess].ScreenName
                Y == store[y].ScreenName
            IN  (last.sent[y] > 0) <=>
                    (OnBuddyList(Y, X) /\ ~Blocks(X, Y) /\ ~Blocks(Y, X))

\* C2 (as claimed; refuted): at most one registered session exists per
\* screen name.
C2_OneSessionPerScreenName ==
    \A a, b \in DOMAIN store :
        (store[a].ScreenName # "" /\ store[a].ScreenName = store[b].ScreenName)
            => a = b

\* the validator of the credential flow the TLVs select accepts them
SelectedFlowAccepts(tlv, user) ==
    IF tlv.PasswordHash # Absent
    THEN tlv.PasswordHash = StrongMD5(user.AuthKey, user.Password)
    ELSE IF tlv.RoastedTOCPassword # Absent
    THEN tlv.RoastedTOCPassword = RoastTOC(user.Password)
    ELSE tlv.RoastedPassword = Roast(user.Password)

LoginAccepted ==
    /\ last.known
    /\ SelectedFlowAccepts(last.in, users[IdentScreenName(LoginName)])

\* C3: with DisableAuth off, a login that returns no error carries an
\* AuthorizationCookie only if the user exists and the validator of the
\* selected flow accepted the credential; otherwise it carries ErrorSubcode
\* and no cookie, and Issue was not called.
C3_CookieOnlyIfValidated ==
    (IsLogin /\ ~DisableAuth /\ ~last.err) =>
        /\ HasCookie => LoginAccepted
        /\ ~LoginAccepted =>
              /\ HasTag(last.block, "ErrorSubcode")
              /\ ~HasCookie
              /\ ~Calls(last.calls, "Issue")

C3_Witness ==
    /\ IsLogin /\ ~DisableAuth /\ ~last.err /\ ~HasCookie
    /\ last.known
    /\ last.in.PasswordHash # Absent
    /\ last.in.RoastedPassword = Roast(users[IdentScreenName(LoginName)].Password)

\* C4: a successful login response carries ReconnectHere = OSCAR host joined
\* with the BOS port and AuthorizationCookie = Issue of the payload {screen
\* name, client ID} presented; when Issue fails login returns an error and no
\* TLV block.
C4_SuccessBlock ==
    IsLogin =>
        /\ (~last.err /\ ~HasTag(last.block, "ErrorSubcode")) =>
              /\ HasTag(last.block, "ReconnectHere")
              /\ last.block.ReconnectHere = JoinHostPort(OSCARHost, BOSPort)
              /\ HasCookie
              /\ last.block.AuthorizationCookie =
                    Issue(MarshalBOSCookie(LoginName,
                        IF last.in.ClientIdentity = Absent
                        THEN "" ELSE last.in.ClientIdentity[1]))
        /\ last.fault = "Issue" => (last.err /\ DOMAIN last.block = {})

C4_Witness ==
    /\ IsLogin /\ ~last.err /\ HasCookie
    /\ last.in.ClientIdentity # Absent

\* the screen name passes the format check of its kind
ValidName(name) ==
    IF IsUIN(name) THEN ValidateUIN(name) = "" ELSE ValidateAIMHandle(name) = ""

C6_LoginCreatesSession ==
    (IsLogin /\ ~last.err /\ HasCookie) =>
        \E i \in DOMAIN store :
            IdentScreenName(store[i].ScreenName) = IdentScreenName(LoginName)

IsChallenge == last.op = "BUCPChallenge"

ChallengeFailsEarly == last.in.ScreenName = Absent \/ last.fault = "User"

C8_RegisteredSession ==
    (last.op = "RegisterBOSSession" /\ ~last.err) =>
        LET c == Crack(last.in)
            u == users[IdentScreenName(c.ScreenName)]
        IN  /\ last.sess \in DOMAIN store
            /\ store[last.sess].ScreenName = u.DisplayScreenName
            /\ store[last.sess].ClientID = c.ClientID
            /\ ("Unconfirmed" \in store[last.sess].flags) <=> ~u.Confirmed
            /\ ("ICQ" \in store[last.sess].flags) <=> IsUIN(u.DisplayScreenName)
            /\ store[last.sess].UIN =
                  IF IsUIN(u.DisplayScreenName) THEN Atoi(u.DisplayScreenName).n ELSE 0

C8_Witness ==
    /\ last.op = "RegisterBOSSession" /\ ~last.err
    /\ Crack(last.in).ScreenName = "ALICE"
    /\ store[last.sess].ScreenName = "Alice"
    /\ store[last.sess].flags = {}

\* C9: a step of RegisterBOSSession, RetrieveBOSSession or
\* RegisterChatSession with a cookie that Crack rejects returns an error,
\* makes no call but Crack and leaves both session registries as they were.
C9_RejectedCookieTouchesNothing ==
    [][ (/\ last'.op \in {"RegisterBOSSession", "RetrieveBOSSession",
                         "RegisterChatSession"}
         /\ ~CrackOK(last'.in))
        => (/\ last'.err
            /\ last'.calls = <<"Crack">>
            /\ last'.sess = 0
            /\ store' = store /\ chat' = chat /\ nextID' = nextID) ]_vars

C9_Witness ==
    /\ last.op = "RegisterChatSession" /\ ~CrackOK(last.in) /\ last.err
    /\ DOMAIN store # {} /\ DOMAIN chat # {}

\* C10 (as claimed; refuted): after Signout(sess) returns, sess is not in the
\* session registry, also when the departure broadcast failed.
C10_SignoutRemoves ==
    last.op \in {"Signout", "OSCARProxy.Signout"} => last.sess \notin DOMAIN store

SignoutOps == {"Signout", "OSCARProxy.Signout"}

C12_RemoveOnlyIdentical ==
    [][ last'.op = "Remove" =>
          /\ DOMAIN store' = DOMAIN store \ {last'.sess}
          /\ \A i \in DOMAIN store' : store'[i] = store[i]
          /\ last'.sess \notin DOMAIN store => store' = store ]_vars

C12_Witness ==
    /\ last.op = "Remove" /\ ~last.known
    /\ \E i \in DOMAIN store : store[i].ScreenName # ""

\* C13: SignoutChat alerts the room before it removes the participant; after
\* it the session is no participant of any room, and the alert went to
\* remaining participants of the leaver's room only, never to the leaver.
C13_SignoutChatAlertsThenRemoves ==
    last.op = "SignoutChat" =>
        /\ last.calls = <<"alertUserLeft", "RemoveSession">>
        /\ last.sess \notin DOMAIN chat
        /\ last.sess \notin last.sent
        /\ \A i \in last.sent :
              i \in DOMAIN chat /\ chat[i].ChatCookie = last.in[2]

C13_Witness ==
    last.op = "SignoutChat" /\ last.sent # {} /\ last.sess \notin DOMAIN chat

RECURSIVE SumIncr(_)
\* the increments of the IncreaseWarning calls of goroutines 1..g
SumIncr(g) ==
    IF g = 0 THEN 0 ELSE SumIncr(g - 1) + goroutines[g].incr

AllReturned == \A g \in Goroutines : goroutines[g].pc = "returned"

\* C14 (as claimed; refuted): no update is lost: when every concurrent call
\* on the session has returned, the warning is the initial value plus the
\* sum of the increments of all IncreaseWarning calls, modulo 2^16.
C14_NoLostUpdate ==
    AllReturned => store[Shared].Warning = SumIncr(MaxGoroutines) % UInt16

IsRouted == last.op \in {"routeBuddy", "routeChatNav"}

\* the subgroups the switch of the router names
NamedSubGroups ==
    IF last.op = "routeBuddy"
    THEN {BuddyErr, BuddyRightsQuery, BuddyAddBuddies, BuddyDelBuddies,
          BuddyWatcherListQuery, BuddyWatcherSubRequest, BuddyWatcherNotification,
          BuddyRejectNotification, BuddyArrived, BuddyDeparted, BuddyAddTempBuddies,
          BuddyDelTempBuddies}
    ELSE {ChatNavErr, ChatNavRequestChatRights, ChatNavRequestExchangeInfo,
          ChatNavRequestRoomInfo, ChatNavRequestMoreRoomInfo,
          ChatNavRequestOccupantList, ChatNavSearchForRoom, ChatNavCreateRoom,
          ChatNavNavInfo}

\* C16: routeBuddy, routeChatNav and the toc_signon handler never panic on
\* what the client sends: every subgroup and every sign-on line, a password
\* token of fewer than two characters included, ends in a reply or an error
\* value.
C16_HandlersNeverPanic ==
    (IsRouted \/ last.op = "Signon") => ~last.panic

\* C17: a SNAC whose subgroup has no handler in the router is answered with
\* the SNAC error "service not supported", and the router returns no fatal
\* error (the connection stays open).
C17_UnknownSubGroupGetsError ==
    (IsRouted /\ last.in[1] \notin NamedSubGroups) =>
        /\ last.reply = <<"service not supported">>
        /\ ~last.err
        /\ ~last.panic

\* the last operation is a TOC command in whose handling an internal error
\* came up
InternalError == last.op = "RecvClientCmd" /\ last.err

\* C18: whichever TOC command RecvClientCmd handles, an internal error that
\* comes up in its handling reaches the client as an ERROR:<code> line.
C18_InternalErrorSurfaces ==
    InternalError => last.reply = <<cmdInternalSvcErr>>

\* the last operation is a toc_chat_join that succeeded on a connection
\* whose ChatRegistry was empty
FirstJoin ==
    /\ last.op = "RecvClientCmd"
    /\ last.in[1] = "toc_chat_join"
    /\ ~last.known
    /\ last.ok
    /\ ~last.err

\* C19 as the spec states it: the first successful toc_chat_join of a fresh
\* connection gets chat ID 1 and the reply CHAT_JOIN:1:<room name>.
C19_FirstJoinGetsIDOne ==
    FirstJoin => last.reply = << <<"CHAT_JOIN", 1, last.in[3]>> >>

\* C19, amended: the first successful toc_chat_join of a fresh connection
\* (empty ChatRegistry) gets chat ID 0, the zero value nextID starts from,
\* and the reply CHAT_JOIN:0:<room name>; the session of the room is
\* registered under that ID.
C19_FirstJoinGetsIDZero ==
    FirstJoin =>
        /\ last.reply = << <<"CHAT_JOIN", 0, last.in[3]>> >>
        /\ LookupRoom(chatRegistry, 0).found
        /\ LookupRoom(chatRegistry, 0).room.Cookie = last.in[3]
        /\ RetrieveSess(chatRegistry, 0) \in DOMAIN chat

C19_Witness ==
    /\ FirstJoin
    /\ last.reply = << <<"CHAT_JOIN", 0, "lobby">> >>
    /\ chatRegistry.nextID = 1

\* the IDs under which the registry holds the room
IDsOf(reg, room) == {i \in DOMAIN reg.lookup : reg.lookup[i] = room}

\* no two IDs of the registry hold the same room
Injective(reg) ==
    \A i, j \in DOMAIN reg.lookup : reg.lookup[i] = reg.lookup[j] => i = j

\* C20: Add is idempotent per room and injective across rooms.  Adding a
\* registered room returns the ID it has and leaves the registry as it was;
\* a new room gets the ID after the one assigned last; after any sequence
\* of Add calls, from whichever goroutine, no two IDs hold the same room and
\* LookupRoom of the ID Add returned is the room.
C20_AddIdempotentInjective ==
    [][ last'.op = "ChatRegistry.Add" =>
          LET room == last'.in[1]
              id   == last'.reply[1]
          IN  /\ last'.known => /\ chatRegistry' = chatRegistry
                                /\ IDsOf(chatRegistry, room) = {id}
              /\ ~last'.known => /\ id = chatRegistry.nextID
                                 /\ chatRegistry'.nextID = id + 1
                                 /\ \A i \in DOMAIN chatRegistry.lookup :
                                        /\ i < id
                                        /\ chatRegistry'.lookup[i] = chatRegistry.lookup[i]
              /\ LookupRoom(chatRegistry', id) = [room |-> room, found |-> TRUE]
              /\ Injective(chatRegistry')
              /\ chatRegistry'.sessions = chatRegistry.sessions ]_vars

C20_Witness ==
    /\ last.op = "ChatRegistry.Add"
    /\ last.known
    /\ last.reply = <<1>>
    /\ chatRegistry.nextID = 2

\* the reflection the chat service returned is a ChatChannelMsgToClient
\* whose message text and sender information are there and decode
Reflected(reflection) ==
    /\ reflection.kind = "ChatChannelMsgToClient"
    /\ reflection.hasMsgInfo /\ reflection.textOK
    /\ reflection.hasSender /\ reflection.senderOK

\* C21: toc_chat_send never echoes locally.  The CHAT_IN line carries the
\* sender and the text of the ChatChannelMsgToClient the chat service
\* returned, the text as it is in the reflection; the request always has
\* the reflection flag set; without a reflection of that type, with its
\* TLVs, the reply is the error line and no CHAT_IN.
C21_ChatSendReflects ==
    last.op = "ChatSend" =>
        LET reflection == last.reflection[1]
        IN  /\ ~last.err =>
                  /\ Reflected(reflection)
                  /\ last.reply = << <<"CHAT_IN", Atoi(last.in[2]).n,
                                       reflection.sender, "F", reflection.text>> >>
            /\ ~Reflected(reflection) => last.reply = <<cmdInternalSvcErr>>
            /\ last.request # <<>> => last.request[1].reflect = 1

C21_Witness ==
    /\ last.op = "ChatSend"
    /\ ~last.err
    /\ last.reflection[1].sender = "Bob"
    /\ last.reflection[1].text # last.in[3]

\* the last operation is a toc_chat_leave that succeeded
LeftChat ==
    /\ last.op = "RecvClientCmd"
    /\ last.in[1] = "toc_chat_leave"
    /\ Calls(last.calls, "Close")

\* C22: every successful toc_chat_join or toc_chat_accept registers a chat
\* session under the chat ID it returns and starts one pump, which reads
\* that session; after a successful toc_chat_leave of the ID the session
\* of every join that returned the ID is signed out of its room and closed,
\* so that its pump stops.
C22_JoinPumpsLeaveStops ==
    /\ \A i \in DOMAIN pumps :
          pumps[i].pc = "reading" => pumps[i].sess = pumps[i].joined
    /\ LeftChat =>
          \A i \in DOMAIN pumps :
              pumps[i].chatID = Atoi(last.in[2]).n =>
                  /\ pumps[i].joined \in closed
                  /\ pumps[i].joined \notin DOMAIN chat

\* the last operation is a toc_signon that returned
SignonReturned == last.op = "Signon" /\ ~last.panic

\* C23: toc_signon returns a session exactly when its reply is the two
\* lines SIGN_ON:TOC1.0 and CONFIG:<stored config>, in that order; when
\* the login response carries an ErrorSubcode it returns no session and the
\* one line ERROR:980, and RegisterBOSSession is not called.
C23_SignonReply ==
    SignonReturned =>
        /\ last.sess # 0 <=>
              /\ Len(last.reply) = 2
              /\ last.reply[1] = <<"SIGN_ON", "TOC1.0">>
              /\ last.reply[2][1] = "CONFIG"
        /\ last.sess # 0 =>
              /\ last.sess \in DOMAIN store
              /\ last.reply[2] =
                    <<"CONFIG", TOCConfig(IdentScreenName(store[last.sess].ScreenName))>>
        /\ HasTag(last.block, "ErrorSubcode") =>
              /\ last.sess = 0
              /\ last.reply = << <<"ERROR", "980">> >>
              /\ ~Calls(last.calls, "Crack")
              /\ ~Calls(last.calls, "AddSession")

C23_Witness ==
    /\ SignonReturned
    /\ last.sess # 0
    /\ last.reply = << <<"SIGN_ON", "TOC1.0">>, <<"CONFIG", "m 1">> >>

\* the last operation parsed a line that groups with braces and has no
\* double quote
BraceLine ==
    /\ last.op = "parseArgs"
    /\ \E i \in DOMAIN last.in : last.in[i] \in {"{", "}"}
    /\ \A i \in DOMAIN last.in : last.in[i] # Quote

\* the line with a double quote in the place of every brace
QuoteTwin(line) ==
    [i \in DOMAIN line |-> IF line[i] \in {"{", "}"} THEN Quote ELSE line[i]]

\* the arguments the last operation parsed
ParsedArgs == [err |-> last.err, args |-> last.reply[1], varArgs |-> last.reply[2]]

\* the first token selects the command, the next tokens fill the positional
\* arguments and the rest are the varargs
TokensMapToArgs ==
    (last.op = "parseArgs" /\ ~last.err) =>
        LET segs == csvRead(IF last.sub = "toc_set_config"
                            THEN TrimSpace(ReplaceBraces(last.in))
                            ELSE last.in).segs
            n    == Positional(last.sub)
        IN  /\ segs[1] = <<last.sub>>
            /\ Len(last.reply[1]) = n
            /\ \A i \in 1..n : last.reply[1][i] = TrimSpace(segs[i + 1])
            /\ last.reply[2] = SubSeq(segs, n + 2, Len(segs))

C25_ShutdownReturns ==
    /\ (server.ctx = "cancelled" /\ server.listener = "open")
          ~> (server.listener = "closed")
    /\ [][server.listener = "closed" =>
             /\ Len(conns') = Len(conns)
             /\ server'.listener = "closed"]_vars
    /\ (server.ctx = "cancelled") ~> (server.pc = "returned")
    /\ [][server.pc = "returned" => server'.pc = "returned"]_vars

C25_Witness ==
    /\ server.ctx = "cancelled"
    /\ server.pc = "returned"
    /\ ~server.clean
    /\ \E i \in DOMAIN conns : conns[i].pc = "signon sent"

\* s is the beginning of t
IsPrefix(s, t) == Len(s) <= Len(t) /\ \A k \in DOMAIN s : s[k] = t[k]

\* C28: on every auth connection the server's signon frame is written
\* before anything is read; the flow is FLAP exactly when the client's
\* signon frame has the screen name TLV, whatever its password TLV, and BUCP
\* otherwise; and a FLAP connection carries, after the two signon frames,
\* one signoff frame at most and nothing else before it is closed.
C28_FlowFromSignonFrame ==
    \A i \in DOMAIN conns :
        LET c == conns[i] IN
        /\ c.io # <<>> /\ c.io[1] # "close" => c.io[1] = "send signon"
        /\ c.frame # <<>> => (c.flow = "FLAP" <=> c.frame[1].ScreenName)
        /\ c.frame # <<>> => (c.flow = "BUCP" <=> ~c.frame[1].ScreenName)
        /\ c.flow = "FLAP" =>
              \/ IsPrefix(c.io, <<"send signon", "recv signon", "send signoff", "close">>)
              \/ c.io = <<"send signon", "recv signon", "close">>
        /\ c.flow = "FLAP" /\ c.pc = "closed" /\ ~c.err =>
              c.io = <<"send signon", "recv signon", "send signoff", "close">>

C28_Witness ==
    \E i \in DOMAIN conns :
        /\ conns[i].frame = <<[ScreenName |-> TRUE, RoastedPassword |-> FALSE]>>
        /\ conns[i].io = <<"send signon", "recv signon", "send signoff", "close">>
        /\ \E j \in DOMAIN conns :
              /\ conns[j].frame = <<[ScreenName |-> FALSE, RoastedPassword |-> TRUE]>>
              /\ conns[j].flow = "BUCP"

\* the places of x in s
Places(s, x) == {k \in DOMAIN s : s[k] = x}

\* C29: a BUCP connection reads one challenge request and one login request
\* at most; the login request is read only directly after the challenge
\* response (0x17, 0x07) was sent; a challenge answered with the login
\* response (0x17, 0x03) is followed by the close and by no login request;
\* and a handler that has returned, with or without an error, has closed
\* its connection as the last thing it did.
C29_BUCPOneExchangeThenClose ==
    \A i \in DOMAIN conns :
        LET c == conns[i] IN
        /\ c.flow = "BUCP" =>
              /\ Cardinality(Places(c.io, "recv 0x17,0x06")) <= 1
              /\ Cardinality(Places(c.io, "recv 0x17,0x02")) <= 1
              /\ Cardinality(Places(c.io, "send signoff")) = 0
              /\ \A k \in Places(c.io, "recv 0x17,0x02") :
                    /\ k > 2
                    /\ c.io[k - 1] = BUCPChallengeResponse
                    /\ c.io[k - 2] = "recv 0x17,0x06"
              /\ \A k \in Places(c.io, BUCPLoginResponse) :
                    /\ k < Len(c.io)
                    /\ c.io[k + 1] = "close"
                    /\ c.io[k - 1] \in {"recv 0x17,0x06", "recv 0x17,0x02"}
        /\ c.pc = "closed" <=> Places(c.io, "close") = {Len(c.io)} /\ c.io # <<>>
        /\ Places(c.io, "close") \subseteq {Len(c.io)}

C29_Witness ==
    /\ \E i \in DOMAIN conns :
          conns[i].io = <<"send signon", "recv signon", "recv 0x17,0x06",
                          BUCPLoginResponse, "close">>
    /\ \E i \in DOMAIN conns :
          /\ conns[i].io = <<"send signon", "recv signon", "recv 0x17,0x06",
                             BUCPChallengeResponse, "recv 0x17,0x02", "close">>
          /\ conns[i].err

\* the last item of items that has the key of item
LastWrite(items, item) ==
    LET same == {k \in DOMAIN items : /\ items[k].groupID = item.groupID
                                      /\ items[k].itemID = item.itemID}
    IN  items[CHOOSE k \in same : \A j \in same : j <= k]

\* C26: the feedbag table never holds two rows with the same (ScreenName,
\* groupID, itemID); an Upsert leaves every row of another key as it was,
\* adds no row for a key that had one, and after it Retrieve returns, for
\* each key written, exactly the item last written for it, with its
\* classID, name and attributes; and Retrieve answers with the rows as they
\* are stored.
C26_UpsertLastWriteWins ==
    /\ [](\A r, q \in feedbag :
            KeyOf(r.ScreenName, r) = KeyOf(q.ScreenName, q) => r = q)
    /\ [][last'.op = "Upsert" =>
            LET screenName == last'.in[1]
                items      == last'.in[2]
                keys       == {KeyOf(screenName, items[k]) : k \in DOMAIN items}
            IN  /\ \A k \in DOMAIN items :
                      {it \in Retrieve(feedbag', screenName) :
                          KeyOf(screenName, it) = KeyOf(screenName, items[k])}
                      = {LastWrite(items, items[k])}
                /\ {r \in feedbag' : KeyOf(r.ScreenName, r) \notin keys}
                   = {r \in feedbag : KeyOf(r.ScreenName, r) \notin keys}
                /\ Cardinality(feedbag') =
                   Cardinality(feedbag)
                   + Cardinality({k \in keys :
                        ~ \E r \in feedbag : KeyOf(r.ScreenName, r) = k})]_vars
    /\ [][last'.op = "Retrieve" => last'.sent = Retrieve(feedbag, last'.in[1])]_vars

C26_Witness ==
    /\ last.op = "Upsert"
    /\ last.known
    /\ Len(last.in[2]) = 2
    /\ Cardinality(feedbag) = 4
    /\ Retrieve(feedbag, "Alice") =
         {[groupID |-> 1, itemID |-> 1, classID |-> 0, name |-> "Bob",
           attributes |-> <<[tType |-> FeedbagAttributesOrder, val |-> <<0, 1>>]>>],
          [groupID |-> 2, itemID |-> 1, classID |-> 3, name |-> "Bob", attributes |-> <<>>],
          [groupID |-> 1, itemID |-> 2, classID |-> 0, name |-> "Bob",
           attributes |-> <<[tType |-> FeedbagAttributesPdMode, val |-> <<1>>]>>]}

\* the user table has a row for screenName
UserExists(t, screenName) == [ScreenName |-> screenName] \in t.user

\* C27: a RetrieveProfile whose query ran returns errUserNotExist and no
\* body for a screen name without a user row, the stored body and no error
\* for a user with a profile row, and the empty string and no error for a
\* user without one; after UpsertProfile(sn, body) succeeded, and until the
\* next one for sn does, RetrieveProfile(sn) can only return body once the
\* user sn exists.
C27_RetrieveProfile ==
    /\ [][last'.op = "RetrieveProfile" /\ last'.fault # "db" =>
            LET sn   == last'.in[1]
                rows == {p \in tables.profile : p.ScreenName = sn}
            IN  /\ ~UserExists(tables, sn) =>
                      last'.fault = "errUserNotExist" /\ last'.reply = <<"">>
                /\ UserExists(tables, sn) /\ rows = {} =>
                      ~last'.err /\ last'.reply = <<"">>
                /\ UserExists(tables, sn) /\ rows # {} =>
                      ~last'.err /\ \E p \in rows : last'.reply = p.body]_vars
    /\ [][last'.op = "UpsertProfile" /\ ~last'.err =>
            LET sn == last'.in[1] IN
            /\ RetrieveProfile(UpsertUser(tables', sn), sn, FALSE)
               = {[profile |-> last'.in[2], err |-> "nil"]}
            /\ \A other \in PresenceNames \ {sn} :
                  RetrieveProfile(UpsertUser(tables', other), other, FALSE)
                  = RetrieveProfile(UpsertUser(tables, other), other, FALSE)]_vars
    /\ [][~(last'.op = "UpsertProfile" /\ ~last'.err) =>
            \A sn \in PresenceNames :
                RetrieveProfile(UpsertUser(tables', sn), sn, FALSE)
                = RetrieveProfile(UpsertUser(tables, sn), sn, FALSE)]_vars

C27_Witness ==
    /\ last.op = "RetrieveProfile"
    /\ last.in = <<"Alice">>
    /\ last.reply = <<"bye">>
    /\ ~last.err
    /\ RetrieveProfile(tables, "Bob", FALSE) = {[profile |-> "", err |-> "nil"]}

\* the credential of the flow a TLV list selects is the one stored for u:
\* the password hash if there is one, else the TOC password if there is
\* one, else the roasted password
CredentialMatches(tlv, u) ==
    IF tlv.PasswordHash # Absent
    THEN tlv.PasswordHash = StrongMD5(u.AuthKey, u.Password)
    ELSE IF tlv.RoastedTOCPassword # Absent
    THEN tlv.RoastedTOCPassword = RoastTOC(u.Password)
    ELSE tlv.RoastedPassword = Roast(u.Password)

\* C30: with DisableAuth off, a login that returns a response for a screen
\* name without an account carries LoginErrICQUserErr when the name is a
\* UIN and LoginErrInvalidUsernameOrPassword when it is not; for a name with
\* an account it carries LoginErrInvalidPassword exactly when the credential
\* of the selected flow does not match, the flow being BUCP hash if the
\* password hash TLV is present, else TOC roasted if the TOC password TLV is
\* present, else FLAP roasted.
C30_FailureReasonAndFlow ==
    [][(/\ last'.op \in {"BUCPLogin", "FLAPLogin"}
        /\ ~DisableAuth
        /\ ~last'.err) =>
          LET tlv   == last'.in
              name  == tlv.ScreenName[1]
              ident == IdentScreenName(name)
          IN  IF ident \notin DOMAIN users
              THEN /\ HasTag(last'.block, "ErrorSubcode")
                   /\ IsUIN(name) => last'.block.ErrorSubcode = "LoginErrICQUserErr"
                   /\ ~IsUIN(name) =>
                         last'.block.ErrorSubcode = "LoginErrInvalidUsernameOrPassword"
              ELSE IF CredentialMatches(tlv, users[ident])
                   THEN ~HasTag(last'.block, "ErrorSubcode")
                   ELSE /\ HasTag(last'.block, "ErrorSubcode")
                        /\ last'.block.ErrorSubcode = "LoginErrInvalidPassword"]_vars

C30_Witness ==
    /\ ~DisableAuth
    /\ last.op = "FLAPLogin"
    /\ last.in.ScreenName = <<"Alice">>
    /\ last.in.PasswordHash = StrongMD5("k1", "pw2")
    /\ last.in.RoastedTOCPassword = RoastTOC("pw1")
    /\ ~last.err
    /\ HasTag(last.block, "ErrorSubcode")
    /\ last.block.ErrorSubcode = "LoginErrInvalidPassword"

\* C31: the accept loop is left only once the listener is closed, and the
\* listener is closed only after the context was cancelled; until then,
\* whatever the handlers of the connections returned and whatever Accept
\* returned last, the server accepts the next connection.
C31_AcceptLoopSurvivesFailures ==
    /\ [][server.pc = "accept" /\ server'.pc # "accept" =>
            server.listener = "closed" /\ server.ctx = "cancelled"]_vars
    /\ [](server.listener = "closed" => server.ctx = "cancelled")
    /\ [](server.pc = "accept" /\ server.listener = "open" /\ Len(conns) < MaxConns =>
            ENABLED Accept)

C31_Witness ==
    /\ server.ctx = "live"
    /\ Len(conns) = 2
    /\ conns[1].pc = "closed" /\ conns[1].err
    /\ last = ConnRecord("Accept", 2)

\* a line of the config text is an item of the type: the type, a space, and
\* the rest of the line, its value
IsItem(line, type) == Len(line) >= 3 /\ line[1] = type /\ line[2] = Space

\* the values of the items of the type in the text, in their order
RECURSIVE ValuesOf(_, _)
ValuesOf(info, type) ==
    IF info = <<>>
    THEN <<>>
    ELSE (IF IsItem(Head(info), type)
          THEN <<SubSeq(Head(info), 3, Len(Head(info)))>>
          ELSE <<>>) \o ValuesOf(Tail(info), type)

\* the permit/deny calls among the calls
PermitDenyCalls(calls) ==
    SelectSeq(calls, LAMBDA c : c.name \in {"AddDenyListEntries", "AddPermListEntries"})

\* C32: toc_set_config takes the mode of the last m item of the text, mode
\* 1 when there is none.  An m item with any other value than 1..4 gives
\* the error reply and no service call.  Otherwise exactly one permit/deny
\* call is made: mode 1 adds the user's name to the deny list, mode 2 adds
\* it to the permit list, mode 3 adds the values of all p items to the
\* permit list, mode 4 those of all d items to the deny list.
C32_ModeSelectsOnePermitDenyCall ==
    last.op = "SetConfig" =>
        LET modes == ValuesOf(last.in, "m")
            mode  == IF modes = <<>> THEN <<"1">> ELSE modes[Len(modes)]
            me    == << IdentScreenName(store[last.sess].ScreenName) >>
            pd    == PermitDenyCalls(last.calls)
        IN  IF \E k \in DOMAIN modes : modes[k] \notin {<<"1">>, <<"2">>, <<"3">>, <<"4">>}
            THEN last.reply = <<cmdInternalSvcErr>> /\ last.calls = <<>>
            ELSE /\ Len(pd) = 1
                 /\ last.calls[1] = pd[1]
                 /\ mode = <<"1">> => pd[1] = ServiceCall("AddDenyListEntries", <<me>>)
                 /\ mode = <<"2">> => pd[1] = ServiceCall("AddPermListEntries", <<me>>)
                 /\ mode = <<"3">> =>
                       pd[1] = ServiceCall("AddPermListEntries", ValuesOf(last.in, "p"))
                 /\ mode = <<"4">> =>
                       pd[1] = ServiceCall("AddDenyListEntries", ValuesOf(last.in, "d"))

\* the names of the calls, in their order
CallNames(calls) == [k \in DOMAIN calls |-> calls[k].name]

\* the values of one word among the values
OneWord(values) == SelectSeq(values, LAMBDA v : Len(v) = 1)

C34_FailedRegisterLeavesRegistry ==
    [][last'.op = "RegisterBOSSession" /\ last'.err => store' = store]_vars

\* C35: a toc_signon that returns no session leaves the session registry
\* as it was before and leaves no buddy list it registered.
C35_FailedSignonLeavesNothing ==
    [][last'.op = "Signon" /\ ~last'.panic /\ last'.sess = 0 =>
          /\ store' = store
          /\ ~(Calls(last'.calls, "RegisterBuddyList")
               /\ last'.fault # "RegisterBuddyList")]_vars

\* the sessions of the users who have screenName as a buddy and do not
\* deny it
WatcherSessions(screenName) ==
    {i \in DOMAIN store :
        /\ \E r \in feedbag : /\ r.ScreenName = store[i].ScreenName
                              /\ r.classID = 0 /\ r.name = screenName
        /\ ~ \E r \in feedbag : /\ r.ScreenName = store[i].ScreenName
                                /\ r.classID = 3 /\ r.name = screenName}

\* C36: one NotifyArrival or NotifyDeparture call that returns no error
\* sends one message to each watcher session and none to any other
\* session, whatever the feedbag holds; so no session gets two messages
\* and both calls address the same sessions.
C36_OneMessagePerWatcher ==
    (last.op \in {"NotifyArrival", "NotifyDeparture"} /\ ~last.err) =>
        \A i \in DOMAIN store :
            last.sent[i] = IF i \in WatcherSessions(store[last.sess].ScreenName)
                           THEN 1 ELSE 0

\* C37: for every feedbag and all users X and Y, InterestedUsers(X)
\* returns Y exactly when Buddies(Y) returns X.
C37_PresenceQueriesAgree ==
    \A X, Y \in PresenceNames :
        (\E f \in InterestedUsers(feedbag, X) : f.ScreenName = Y)
        <=> (\E f \in Buddies(feedbag, Y) : f.name = X)

\* C38: after a successful toc_chat_leave of a chat ID the ChatRegistry
\* holds no session for the ID, so that a toc_chat_send or a toc_chat_leave
\* of the same ID answers with the error line and calls no service.
C38_LeaveUnregisters ==
    LeftChat =>
        /\ RetrieveSess(chatRegistry, Atoi(last.in[2]).n) = 0
        /\ \A reflection \in Reflections :
              ChatSend(<<"toc_chat_send", last.in[2], "hello">>, FALSE, reflection)
                  = ChatSent(cmdInternalSvcErr, <<>>)
        /\ ChatLeave(last.in, FALSE).msg = cmdInternalSvcErr
        /\ ChatLeave(last.in, FALSE).calls = <<>>

\* C39: a write of the session store map excludes every other access: no
\* goroutine is in the assignment of NewSession or the delete of Remove
\* while another goroutine is in its access of the map.
C39_MapWritesExclusive ==
    \A g, h \in Goroutines :
        (/\ g # h
         /\ goroutines[g].op \in ManagerMethods
         /\ WritesMap(goroutines[g].op)
         /\ goroutines[g].pc = "accessing")
            => goroutines[h].pc # "accessing"

\* C40: Delete(screenName, items) removes the rows of screenName with the
\* groupID and itemID of a listed item and no other row: not a row of
\* screenName with the same itemID in another group, not a row of another
\* user.
C40_DeleteExactlyListedRows ==
    [][last'.op = "Delete" =>
          feedbag' = {r \in feedbag :
                        ~(/\ r.ScreenName = last'.in[1]
                          /\ r.itemID = last'.in[2]
                          /\ r.groupID = last'.in[3])}]_vars

====
